---- MODULE Spec2Model ----
(***************************************************************************)
(* VAnguard POrtfolio REbalance: the allocation model (asset.rs), the      *)
(* rebalance engine (calc.rs), the ShareValues vector and the ledger       *)
(* replay of the holdings store (holdings.rs).                             *)
(*                                                                         *)
(* Numbers.  The program computes in f32.  The model computes the same     *)
(* expressions over exact fixed-point integers:                            *)
(*   - an allocation percentage is held in tenths of a percent             *)
(*     (67.5 % is 675),                                                    *)
(*   - a sub-allocation percentage is held in 1/90 of a percent, so that   *)
(*     the fractions 2/9, 1/9 and 1/3 of a tenth of a percent are whole,   *)
(*   - money is held in mills (1/1000 dollar); the inputs are multiples of *)
(*     90 dollars (Step), which keeps every division of the engine exact.  *)
(* The operators of ShareValues round a result of more than 24             *)
(* significant bits as f32 does (F32); the amounts of the engine and of    *)
(* the ledger stay below that, so nothing is rounded there.  In the        *)
(* specification of ShareValues alone (SpecSv) the slots hold whole        *)
(* numbers, which f32 keeps exactly up to 2^24.                            *)
(***************************************************************************)
EXTENDS Integers, Sequences, FiniteSets, TLC

VARIABLES
    this_year,      \* chrono::Local::now().year(), read by Allocations::retirement
    accounts_values, \* VanguardHoldings.accounts_values: account number -> ShareValues
    pc,             \* "idle" (no call in progress), "done" (a call returned), "panic"
    call,           \* the engine call that returned last: its name, inputs and result
    transactions,   \* VanguardHoldings.transactions: the ledger of the import
    distributions,  \* VanguardHoldings.distributions: account number -> dollars taken
    eoy_calls,      \* number of eoy_traditional_holdings calls made on the store
    eoy_result,     \* what the last eoy_traditional_holdings call returned
    distribution_needed, \* VaporeApp.distribution_needed: the text under "Required distributions"
    share_values,   \* a ShareValues value under a sequence of its methods and operators
    share_values_ops, \* number of methods and operators applied to share_values
    store_quotes,   \* VanguardHoldings.quotes of the store behind the mutex
    app,            \* VaporeApp: the profile maps and the holdings copied for to_buy
    frame,          \* the place in VaporeApp::update the user interface thread has reached
    import_threads, \* threads spawned by "Open Vanguard File" that have not finished
    interactions    \* clicks and edits of the user so far

vars == <<this_year, accounts_values, pc, call, transactions, distributions, eoy_calls, eoy_result,
          distribution_needed, share_values, share_values_ops,
          store_quotes, app, frame, import_threads, interactions>>

---------------------------------------------------------------------------
(* Fixed-point scales                                                      *)
(*                                                                         *)
(* A definition whose comment starts with "variant" departs from the       *)
(* source in one place, the way a slip in the code would; it stands right  *)
(* before the definition it departs from and is used by no other           *)
(* definition.  The properties at the end of the module tell each variant  *)
(* from the source.                                                        *)

PctScale == 10          \* allocation percentages: tenths of a percent
FractionDen == 9        \* the split constants of asset.rs are ninths
SubScale == PctScale * FractionDen   \* sub-allocation percentages: 1/90 percent
Mill == 1000            \* money: mills per dollar

\* 100 percent in each scale
Pct100 == 100 * PctScale
Sub100 == 100 * SubScale

Ok(v) == [ok |-> TRUE, val |-> v]
Err(msg) == [ok |-> FALSE, err |-> msg]

Min(a, b) == IF a <= b THEN a ELSE b

---------------------------------------------------------------------------
(* asset.rs: Allocations *)

\* const US_STOCK_FRACTION .. INT_BOND_FRACTION, as ninths
US_STOCK_FRACTION == 6
EACH_US_STOCK == US_STOCK_FRACTION \div 3
INT_STOCK_FRACTION == 3
INT_EMERGING == INT_STOCK_FRACTION \div 3
INT_TOTAL == (INT_STOCK_FRACTION * 2) \div 3
US_BOND_FRACTION == 6
US_CORP_BOND_FRACTION == US_BOND_FRACTION \div 2
US_TOT_BOND_FRACTION == US_BOND_FRACTION \div 2
INT_BOND_FRACTION == 3

\* the supported retirement years: (2000..3000).contains(&year)
YearLow == 2000
YearHigh == 3000

Allocations(stock, bond, infl) ==
    [total_stock |-> stock, total_bond |-> bond, total_inflation_protected |-> infl]

\* variant of GlidePath: the first range closed at 30 (5..=30)
GlidePathInclusive(y) ==
    IF 5 <= y /\ y <= 30
    THEN LET total_stock == 900 - (15 * (25 - y))
         IN  Allocations(total_stock, Pct100 - total_stock, 0)
    ELSE IF -5 <= y /\ y < 5
    THEN LET total_stock == 600 - (-28 * (y - 5))
             total_inflation_protected == -18 * (y - 5)
         IN  Allocations(total_stock,
                         Pct100 - total_stock - total_inflation_protected,
                         total_inflation_protected)
    ELSE IF y < -5
    THEN Allocations(290, 530, 180)
    ELSE Allocations(900, 100, 0)

\* Allocations::retirement(year), with the clock's year as a parameter
GlidePath(y) ==
    IF 5 <= y /\ y < 30
    THEN LET total_stock == 900 - (15 * (25 - y))
         IN  Allocations(total_stock, Pct100 - total_stock, 0)
    ELSE IF -5 <= y /\ y < 5
    THEN LET total_stock == 600 - (-28 * (y - 5))
             total_inflation_protected == -18 * (y - 5)
         IN  Allocations(total_stock,
                         Pct100 - total_stock - total_inflation_protected,
                         total_inflation_protected)
    ELSE IF y < -5
    THEN Allocations(290, 530, 180)
    ELSE Allocations(900, 100, 0)

\* variant of YearSupported: the range closed at 3000 (2000..=3000)
YearSupportedInclusive(year) == YearLow <= year /\ year <= YearHigh

YearSupported(year) == YearLow <= year /\ year < YearHigh

AllocationsRetirement(year, now) ==
    IF ~YearSupported(year)
    THEN Err("Year needs to be between 2000 and 3000")
    ELSE Ok(GlidePath(year - now))

\* variant of CustomSumOk: sum <= 100.0 in place of sum == 100.0
CustomSumAtMost(total_stock, total_bond, total_inflation_protected) ==
    total_stock + total_bond + total_inflation_protected <= Pct100

\* Allocations::custom
CustomSumOk(total_stock, total_bond, total_inflation_protected) ==
    total_stock + total_bond + total_inflation_protected = Pct100

AllocationsCustom(total_stock, total_bond, total_inflation_protected) ==
    IF ~CustomSumOk(total_stock, total_bond, total_inflation_protected)
    THEN Err("Stock + bond + inflation protected does not equal 100")
    ELSE Ok(Allocations(total_stock, total_bond, total_inflation_protected))

\* SubAllocations::new_custom: the nine percentages, in 1/90 percent
SubSplit(allocations) ==
    [us_stock_large     |-> allocations.total_stock * EACH_US_STOCK,
     us_stock_mid       |-> allocations.total_stock * EACH_US_STOCK,
     us_stock_small     |-> allocations.total_stock * EACH_US_STOCK,
     us_tot_bond        |-> allocations.total_bond * US_TOT_BOND_FRACTION,
     us_corp_bond       |-> allocations.total_bond * US_CORP_BOND_FRACTION,
     int_tot_stock      |-> allocations.total_stock * INT_TOTAL,
     int_emerging_stock |-> allocations.total_stock * INT_EMERGING,
     int_bond           |-> allocations.total_bond * INT_BOND_FRACTION,
     inflation_protected |-> allocations.total_inflation_protected * FractionDen]

SubSum(s) ==
    s.us_stock_large + s.us_stock_mid + s.us_stock_small + s.us_tot_bond
    + s.us_corp_bond + s.int_tot_stock + s.int_emerging_stock + s.int_bond
    + s.inflation_protected

\* variant of SubSumOk: (99.8..=100.2).contains(&sum)
SubSumOkWide(sum) ==
    (Sub100 - (2 * FractionDen)) <= sum /\ sum <= (Sub100 + (2 * FractionDen))

\* (99.9..100.1).contains(&sum): 99.9 <= sum < 100.1
SubSumOk(sum) == (Sub100 - FractionDen) <= sum /\ sum < (Sub100 + FractionDen)

SubAllocationsNewCustom(allocations) ==
    LET s == SubSplit(allocations)
    IN  IF ~SubSumOk(SubSum(s))
        THEN Err("Total sub allocations did not add up to 100")
        ELSE Ok(s)

---------------------------------------------------------------------------
(* holdings.rs: StockSymbol and ShareValues *)

\* enum StockSymbol; Other(String) is one bucket whatever the string
Tradable == {"VXUS", "BNDX", "VTIP", "BND", "VWO", "VO", "VB", "VTC", "VV"}
StockSymbol == Tradable \cup {"VMFXX", "Empty", "Other"}

\* variant of StockSymbolNew: the "" arm left out
StockSymbolNewNoEmpty(symbol) ==
    IF symbol \in Tradable \cup {"VMFXX"} THEN symbol
    ELSE "Other"

\* StockSymbol::new(symbol): the match on the ticker string
StockSymbolNew(symbol) ==
    IF symbol \in Tradable \cup {"VMFXX"} THEN symbol
    ELSE IF symbol = "" THEN "Empty"
    ELSE "Other"

\* the field of struct ShareValues a symbol selects (the match arms of
\* add_stock_value, subtract_stock_value and stock_value)
Field(stock_symbol) ==
    CASE stock_symbol = "VXUS"  -> "vxus"
      [] stock_symbol = "BNDX"  -> "bndx"
      [] stock_symbol = "VTIP"  -> "vtip"
      [] stock_symbol = "BND"   -> "bnd"
      [] stock_symbol = "VWO"   -> "vwo"
      [] stock_symbol = "VO"    -> "vo"
      [] stock_symbol = "VB"    -> "vb"
      [] stock_symbol = "VTC"   -> "vtc"
      [] stock_symbol = "VV"    -> "vv"
      [] stock_symbol = "VMFXX" -> "vmfxx"
      [] stock_symbol = "Other" -> "other"

ValueFields == {"vxus", "bndx", "bnd", "vwo", "vo", "vb", "vtc", "vv", "vtip",
                "vmfxx", "other"}
AllFields == ValueFields \cup {"outside_bond", "outside_stock"}

\* the slots are f32: a result of at most 24 significant bits is kept as it
\* is, a larger one is rounded to the nearest multiple of its unit in the
\* last place, a tie to the even multiple
F32Exact == 16777216

RECURSIVE Ulp(_)
Ulp(m) == IF m < F32Exact THEN 1 ELSE 2 * Ulp(m \div 2)

F32(x) ==
    IF x <= F32Exact /\ 0 - x <= F32Exact THEN x
    ELSE LET m == IF x < 0 THEN 0 - x ELSE x
             u == Ulp(m)
             low == (m \div u) * u
             rounded == IF 2 * (m - low) < u THEN low
                        ELSE IF 2 * (m - low) > u THEN low + u
                        ELSE IF (low \div u) % 2 = 0 THEN low ELSE low + u
         IN  IF x < 0 THEN 0 - rounded ELSE rounded

\* ShareValues::new
ShareValuesNew == [f \in AllFields |-> 0]

\* ShareValues::new_quote, in whole dollars per share
ShareValuesNewQuote == [f \in AllFields |-> 1]

\* a panic! of the program: the Empty arm of the ShareValues methods
Panic == "panic"
Panics(stock_symbol) == stock_symbol = "Empty"

\* ShareValues::add_stock_value: sets the slot (it does not add)
AddStockValue(sv, stock_symbol, value) ==
    IF Panics(stock_symbol) THEN Panic
    ELSE [sv EXCEPT ![Field(stock_symbol)] = value]

\* ShareValues::subtract_stock_value
SubtractStockValue(sv, stock_symbol, value) ==
    IF Panics(stock_symbol) THEN Panic
    ELSE [sv EXCEPT ![Field(stock_symbol)] = F32(@ - value)]

\* ShareValues::stock_value
StockValue(sv, stock_symbol) ==
    IF Panics(stock_symbol) THEN Panic
    ELSE sv[Field(stock_symbol)]

\* ShareValues::add_outside_stock_value, add_outside_bond_value
AddOutsideStockValue(sv, stock_value) == [sv EXCEPT !["outside_stock"] = stock_value]
AddOutsideBondValue(sv, bond_value) == [sv EXCEPT !["outside_bond"] = bond_value]

\* variant of TotalValue: outside_stock counted too
TotalValueWithOutside(sv) ==
    sv["vxus"] + sv["bndx"] + sv["bnd"] + sv["vwo"] + sv["vo"] + sv["vb"]
    + sv["vtc"] + sv["vv"] + sv["vmfxx"] + sv["vtip"] + sv["other"]
    + sv["outside_stock"]

\* ShareValues::total_value, the slots added in the order of the source.  The
\* 11 slots it adds stay far below 2^24 in every specification of this
\* module, where the f32 sum is the exact one.
TotalValue(sv) ==
    sv["vxus"] + sv["bndx"] + sv["bnd"] + sv["vwo"] + sv["vo"] + sv["vb"]
    + sv["vtc"] + sv["vv"] + sv["vmfxx"] + sv["vtip"] + sv["other"]

\* variant of SvSub: vtip: self.vtip + other.vtip
SvSubSlip(a, b) ==
    [f \in AllFields |-> IF f = "vtip" THEN F32(a[f] + b[f]) ELSE F32(a[f] - b[f])]

\* impl Add, Sub for ShareValues
SvAdd(a, b) == [f \in AllFields |-> F32(a[f] + b[f])]
SvSub(a, b) == [f \in AllFields |-> F32(a[f] - b[f])]

\* impl Div for ShareValues, dividing mills by dollars per share: the result
\* is in thousandths of a share.  A zero quote gives the non-finite marker.
NonFinite == "NaN/Inf"
SvDiv(a, b) ==
    [f \in AllFields |-> IF b[f] = 0 THEN NonFinite ELSE F32(a[f] \div b[f])]

\* variant of SvMul: outside_stock: self.outside_stock
SvMulSlip(a, b) ==
    [f \in AllFields |-> IF f = "outside_stock" THEN a[f] ELSE F32(a[f] * b[f])]

\* impl Mul for ShareValues
SvMul(a, b) == [f \in AllFields |-> F32(a[f] * b[f])]

\* variant of NewTarget: the two external bond values taken for each other
NewTargetSlip(sub_allocations, total_vanguard_value, other_us_stock_value, other_us_bond_value, other_int_stock_value, other_int_bond_value) ==
    LET total_value == total_vanguard_value + other_us_stock_value
                       + other_us_bond_value + other_int_bond_value
                       + other_int_stock_value
        Share(pct) == ((total_value \div Sub100) * pct)
                      + (((total_value % Sub100) * pct) \div Sub100)
    IN  [vxus  |-> Share(sub_allocations.int_tot_stock)
                   - ((other_int_stock_value * 2) \div 3),
         bndx  |-> Share(sub_allocations.int_bond) - other_us_bond_value,
         bnd   |-> Share(sub_allocations.us_tot_bond) - (other_int_bond_value \div 2),
         vwo   |-> Share(sub_allocations.int_emerging_stock)
                   - (other_int_stock_value \div 3),
         vo    |-> Share(sub_allocations.us_stock_mid) - (other_us_stock_value \div 3),
         vb    |-> Share(sub_allocations.us_stock_small) - (other_us_stock_value \div 3),
         vtc   |-> Share(sub_allocations.us_corp_bond) - (other_int_bond_value \div 2),
         vv    |-> Share(sub_allocations.us_stock_large) - (other_us_stock_value \div 3),
         vtip  |-> Share(sub_allocations.inflation_protected),
         other |-> 0,
         vmfxx |-> 0,
         outside_bond  |-> other_int_bond_value + other_us_bond_value,
         outside_stock |-> other_us_stock_value + other_int_stock_value]

\* ShareValues::new_target
NewTarget(sub_allocations, total_vanguard_value, other_us_stock_value, other_us_bond_value, other_int_stock_value, other_int_bond_value) ==
    LET total_value == total_vanguard_value + other_us_stock_value
                       + other_us_bond_value + other_int_bond_value
                       + other_int_stock_value
        \* total_value * pct / 100, split so that no intermediate product
        \* leaves the 32-bit integers of TLC: the value is that of
        \* (total_value * pct) \div Sub100
        Share(pct) == ((total_value \div Sub100) * pct)
                      + (((total_value % Sub100) * pct) \div Sub100)
    IN  [vxus  |-> Share(sub_allocations.int_tot_stock)
                   - ((other_int_stock_value * 2) \div 3),
         bndx  |-> Share(sub_allocations.int_bond) - other_int_bond_value,
         bnd   |-> Share(sub_allocations.us_tot_bond) - (other_us_bond_value \div 2),
         vwo   |-> Share(sub_allocations.int_emerging_stock)
                   - (other_int_stock_value \div 3),
         vo    |-> Share(sub_allocations.us_stock_mid) - (other_us_stock_value \div 3),
         vb    |-> Share(sub_allocations.us_stock_small) - (other_us_stock_value \div 3),
         vtc   |-> Share(sub_allocations.us_corp_bond) - (other_us_bond_value \div 2),
         vv    |-> Share(sub_allocations.us_stock_large) - (other_us_stock_value \div 3),
         vtip  |-> Share(sub_allocations.inflation_protected),
         other |-> 0,
         vmfxx |-> 0,
         outside_bond  |-> other_int_bond_value + other_us_bond_value,
         outside_stock |-> other_us_stock_value + other_int_stock_value]

\* struct AccountHoldings, AccountHoldings::new and ::default
AccountHoldings(current, target, sale_purchases_needed) ==
    [current |-> current, target |-> target,
     sale_purchases_needed |-> sale_purchases_needed]
AccountHoldingsDefault ==
    AccountHoldings(ShareValuesNew, ShareValuesNew, ShareValuesNew)

---------------------------------------------------------------------------
(* calc.rs: the rebalance engine *)

None == [some |-> FALSE]
Some(v) == [some |-> TRUE, val |-> v]

\* variant of HIGH_TO_LOW_RISK: VXUS listed before VWO
HighToLowRiskSlip == <<"VXUS", "VWO", "VB", "VO", "VV", "BNDX", "BND", "VTC", "VTIP">>

\* const HIGH_TO_LOW_RISK
HIGH_TO_LOW_RISK == <<"VWO", "VXUS", "VB", "VO", "VV", "BNDX", "BND", "VTC", "VTIP">>

\* variant of Reversed: .rev() left out
NotReversed(order) == order

\* HIGH_TO_LOW_RISK.iter().rev()
Reversed(order) == [i \in 1..Len(order) |-> order[Len(order) + 1 - i]]

\* The greedy loop of retirement_calc over `order` from position i on:
\*   value = target_overall.stock_value(symbol).min(total); total -= value;
\*   account_target.add_stock_value(symbol, value); if total <= 0.0 { break }
RECURSIVE Walk(_, _, _, _, _)
Walk(order, i, target_overall_retirement, total, account_target) ==
    IF i > Len(order)
    THEN [total |-> total, target |-> account_target]
    ELSE LET value == Min(StockValue(target_overall_retirement, order[i]), total)
             left == total - value
             filled == AddStockValue(account_target, order[i], value)
         IN  IF left <= 0
             THEN [total |-> left, target |-> filled]
             ELSE Walk(order, i + 1, target_overall_retirement, left, filled)

\* variant of WithinOnePercent: the distance compared with a magnitude,
\* (target - holdings).abs() < 0.01 * holdings.abs()
WithinOnePercentAbs(target_total, holdings_total) ==
    LET Abs(x) == IF x < 0 THEN 0 - x ELSE x
    IN  100 * Abs(target_total - holdings_total) < Abs(holdings_total)

\* variant of WithinOnePercent: the bounds included, >= and <=
WithinOnePercentInclusive(target_total, holdings_total) ==
    /\ 100 * target_total >= 99 * holdings_total
    /\ 100 * target_total <= 101 * holdings_total

\* ensure!(target.total_value() > 0.99 * holdings.total_value()
\*         && target.total_value() < 1.01 * holdings.total_value())
WithinOnePercent(target_total, holdings_total) ==
    /\ 100 * target_total > 99 * holdings_total
    /\ 100 * target_total < 101 * holdings_total

\* the account's holdings once its cash delta is in the VMFXX slot
WithCash(holdings, cash_add) ==
    AddStockValue(holdings, "VMFXX", StockValue(holdings, "VMFXX") + cash_add)

\* variant of Account: the difference taken as holdings - target
AccountSlip(holdings_final, target, stock_quotes) ==
    AccountHoldings(holdings_final, target,
                    SvDiv(SvSub(holdings_final, target), stock_quotes))

\* AccountHoldings::new(holdings, target, (target - holdings) / stock_quotes)
Account(holdings_final, target, stock_quotes) ==
    AccountHoldings(holdings_final, target,
                    SvDiv(SvSub(target, holdings_final), stock_quotes))

\* brokerage_calc
BrokerageCalc(quotes, brokerage_holdings, percent_stock, brokerage_cash_add, brokerage_us_stock_add, brokerage_int_stock_add, brokerage_us_bond_add, brokerage_int_bond_add) ==
    LET percent_bond == Pct100 - percent_stock
        brokerage ==
            AddOutsideBondValue(
                AddOutsideStockValue(WithCash(brokerage_holdings, brokerage_cash_add),
                                     brokerage_us_stock_add + brokerage_int_stock_add),
                brokerage_us_bond_add + brokerage_int_bond_add)
        asset_allocations == AllocationsCustom(percent_stock, percent_bond, 0)
    IN  IF ~asset_allocations.ok THEN asset_allocations
        ELSE LET sub_allocations == SubAllocationsNewCustom(asset_allocations.val)
             IN  IF ~sub_allocations.ok THEN sub_allocations
                 ELSE LET target_holdings ==
                              NewTarget(sub_allocations.val, TotalValue(brokerage),
                                        brokerage_us_stock_add, brokerage_us_bond_add,
                                        brokerage_int_stock_add, brokerage_int_bond_add)
                      IN  Ok(Account(brokerage, target_holdings, quotes))

\* variant of IncludeBrokerage: total_value() tested after the cash delta
\* was added
IncludeBrokerageAfterCash(in) ==
    /\ in.use_brokerage_retirement
    /\ TotalValue(in.brokerage_holdings) + in.brokerage_cash_add # 0

\* variant of IncludeBrokerage: use_brokerage_retirement not consulted
IncludeBrokerageAlways(in) == TotalValue(in.brokerage_holdings) # 0

\* retirement_calc, lines 244-245: the brokerage account joins the pool
IncludeBrokerage(in) ==
    in.use_brokerage_retirement /\ TotalValue(in.brokerage_holdings) # 0

\* retirement_calc, lines 198-258: which accounts take part, their holdings
\* with the cash delta, and the pooled value and external holdings
Pool(in) ==
    LET include_roth == TotalValue(in.roth_holdings) # 0
        include_traditional == TotalValue(in.traditional_holdings) # 0
        include_brokerage == IncludeBrokerage(in)
        roth_holdings_final ==
            IF include_roth THEN WithCash(in.roth_holdings, in.roth_cash_add)
            ELSE ShareValuesNew
        traditional_holdings_final ==
            IF include_traditional
            THEN WithCash(in.traditional_holdings, in.traditional_cash_add)
            ELSE ShareValuesNew
        brokerage_holdings_final ==
            IF include_brokerage
            THEN WithCash(in.brokerage_holdings, in.brokerage_cash_add)
            ELSE ShareValuesNew
        Pooled(roth_add, traditional_add, brokerage_add) ==
            (IF include_roth THEN roth_add ELSE 0)
            + (IF include_traditional THEN traditional_add ELSE 0)
            + (IF include_brokerage THEN brokerage_add ELSE 0)
    IN  [include_roth |-> include_roth,
         include_traditional |-> include_traditional,
         include_brokerage |-> include_brokerage,
         roth_holdings_final |-> roth_holdings_final,
         traditional_holdings_final |-> traditional_holdings_final,
         brokerage_holdings_final |-> brokerage_holdings_final,
         roth_total |-> TotalValue(roth_holdings_final),
         brokerage_total |-> TotalValue(brokerage_holdings_final),
         holdings_value |-> TotalValue(roth_holdings_final)
                            + TotalValue(traditional_holdings_final)
                            + TotalValue(brokerage_holdings_final),
         us_stock_add |-> Pooled(in.roth_us_stock_add, in.traditional_us_stock_add,
                                 in.brokerage_us_stock_add),
         us_bond_add |-> Pooled(in.roth_us_bond_add, in.traditional_us_bond_add,
                                in.brokerage_us_bond_add),
         int_stock_add |-> Pooled(in.roth_int_stock_add, in.traditional_int_stock_add,
                                  in.brokerage_int_stock_add),
         int_bond_add |-> Pooled(in.roth_int_bond_add, in.traditional_int_bond_add,
                                 in.brokerage_int_bond_add)]

AnyIncluded(pool) ==
    pool.include_brokerage \/ pool.include_traditional \/ pool.include_roth

\* retirement_calc, lines 260-274: the shared target
TargetOverallRetirement(sub_allocations, pool) ==
    IF AnyIncluded(pool)
    THEN NewTarget(sub_allocations, pool.holdings_value, pool.us_stock_add,
                   pool.us_bond_add, pool.int_stock_add, pool.int_bond_add)
    ELSE ShareValuesNew

\* the walk of the Roth account, highest risk first
RothWalk(target_overall_retirement, pool) ==
    Walk(HIGH_TO_LOW_RISK, 1, target_overall_retirement, pool.roth_total,
         ShareValuesNew)

\* the walk of the pooled brokerage account, lowest risk first
BrokerageWalk(target_overall_retirement, pool) ==
    Walk(Reversed(HIGH_TO_LOW_RISK), 1, target_overall_retirement,
         pool.brokerage_total, ShareValuesNew)

\* variant of RemainingTarget: remaining_target - roth_target left out
RemainingTargetKeepsRoth(target_overall_retirement, pool, roth_target, brokerage_target) ==
    IF pool.include_brokerage THEN SvSub(target_overall_retirement, brokerage_target)
    ELSE target_overall_retirement

\* remaining_target once the accounts that were walked took their targets
RemainingTarget(target_overall_retirement, pool, roth_target, brokerage_target) ==
    LET after_roth ==
            IF pool.include_roth
            THEN SvSub(target_overall_retirement, roth_target)
            ELSE target_overall_retirement
    IN  IF pool.include_brokerage THEN SvSub(after_roth, brokerage_target)
        ELSE after_roth

\* retirement_calc, on the record `in` of the parameters of to_buy
RetirementCalc(in, now) ==
    LET allocations == AllocationsRetirement(in.retirement_year, now)
    IN
    IF ~allocations.ok THEN allocations ELSE
    LET sub_allocations == SubAllocationsNewCustom(allocations.val)
    IN
    IF ~sub_allocations.ok THEN sub_allocations ELSE
    LET pool == Pool(in)
        target_overall_retirement == TargetOverallRetirement(sub_allocations.val, pool)
        roth_walk == RothWalk(target_overall_retirement, pool)
        brokerage_walk == BrokerageWalk(target_overall_retirement, pool)
        remaining_target ==
            RemainingTarget(target_overall_retirement, pool, roth_walk.target,
                            brokerage_walk.target)
    IN
    IF pool.include_roth /\ roth_walk.total # 0
    THEN Err("Unexpected leftover roth cash")
    ELSE IF pool.include_roth
            /\ ~WithinOnePercent(TotalValue(roth_walk.target),
                                 TotalValue(pool.roth_holdings_final))
    THEN Err("Roth target and total do not match")
    ELSE IF pool.include_brokerage /\ brokerage_walk.total # 0
    THEN Err("Unexpected leftover brokerage cash")
    ELSE IF pool.include_brokerage
            /\ ~WithinOnePercent(TotalValue(brokerage_walk.target),
                                 TotalValue(pool.brokerage_holdings_final))
    THEN Err("brokerage target and total do not match")
    ELSE Ok([traditional_ira_account_option |->
                 IF pool.include_traditional
                 THEN Some(Account(pool.traditional_holdings_final, remaining_target,
                                   in.stock_quotes))
                 ELSE None,
             roth_ira_account_option |->
                 IF pool.include_roth
                 THEN Some(Account(pool.roth_holdings_final, roth_walk.target,
                                   in.stock_quotes))
                 ELSE None,
             brokerage_account_option |->
                 IF pool.include_brokerage
                 THEN Some(Account(pool.brokerage_holdings_final,
                                   brokerage_walk.target, in.stock_quotes))
                 ELSE None,
             target_overall_retirement_option |->
                 IF AnyIncluded(pool) THEN Some(target_overall_retirement)
                 ELSE None])

\* VanguardRebalance::new
VanguardRebalanceNew ==
    [brokerage |-> AccountHoldingsDefault,
     traditional_ira |-> AccountHoldingsDefault,
     roth_ira |-> AccountHoldingsDefault,
     retirement_target |-> ShareValuesNew]

\* variant of BrokerageOnlyCalc: the stock percentage of the glide path of
\* the retirement year handed to brokerage_calc
BrokerageOnlyCalcGlide(in, now) ==
    BrokerageCalc(in.stock_quotes, in.brokerage_holdings,
                  GlidePath(in.retirement_year - now).total_stock,
                  in.brokerage_cash_add, in.brokerage_us_stock_add,
                  in.brokerage_int_stock_add, in.brokerage_us_bond_add,
                  in.brokerage_int_bond_add)

\* to_buy, lines 91-99: brokerage_calc on the parameters of to_buy; the
\* retirement year and the clock's year `now` are not among its arguments
BrokerageOnlyCalc(in, now) ==
    BrokerageCalc(in.stock_quotes, in.brokerage_holdings, in.percent_stock,
                  in.brokerage_cash_add, in.brokerage_us_stock_add,
                  in.brokerage_int_stock_add, in.brokerage_us_bond_add,
                  in.brokerage_int_bond_add)

\* to_buy
ToBuyResult(in, now) ==
    LET calc == RetirementCalc(in, now)
    IN
    IF ~calc.ok THEN calc ELSE
    LET r == calc.val
        brokerage_only == BrokerageOnlyCalc(in, now)
        run_brokerage_calc ==
            ~r.brokerage_account_option.some /\ TotalValue(in.brokerage_holdings) # 0
    IN
    IF run_brokerage_calc /\ ~brokerage_only.ok THEN brokerage_only
    ELSE Ok([traditional_ira |->
                 IF r.traditional_ira_account_option.some
                 THEN r.traditional_ira_account_option.val
                 ELSE AccountHoldingsDefault,
             roth_ira |->
                 IF r.roth_ira_account_option.some
                 THEN r.roth_ira_account_option.val
                 ELSE AccountHoldingsDefault,
             brokerage |->
                 IF r.brokerage_account_option.some
                 THEN r.brokerage_account_option.val
                 ELSE IF run_brokerage_calc THEN brokerage_only.val
                 ELSE AccountHoldingsDefault,
             retirement_target |->
                 IF r.target_overall_retirement_option.some
                 THEN r.target_overall_retirement_option.val
                 ELSE ShareValuesNew])

---------------------------------------------------------------------------
(* holdings.rs: the ledger replay of VanguardHoldings *)

\* chrono::NaiveDate as a year and the day of that year
IsLeap(y) == (y % 4 = 0 /\ y % 100 # 0) \/ y % 400 = 0
DaysIn(y) == IF IsLeap(y) THEN 366 ELSE 365
Date(y, ord) == [year |-> y, ord |-> ord]
Jan1(y) == Date(y, 1)
Dec30(y) == Date(y, DaysIn(y) - 1)
Dec31(y) == Date(y, DaysIn(y))
DateLt(a, b) == a.year < b.year \/ (a.year = b.year /\ a.ord < b.ord)

\* date + Duration::days(n), n >= 0
RECURSIVE AddDays(_, _)
AddDays(d, n) ==
    IF d.ord + n <= DaysIn(d.year) THEN Date(d.year, d.ord + n)
    ELSE AddDays(Date(d.year + 1, 0), d.ord + n - DaysIn(d.year))

\* struct Transaction
Transaction(account_number, trade_date, symbol, shares, net_amount, transaction_type) ==
    [account_number |-> account_number, trade_date |-> trade_date,
     symbol |-> symbol, shares |-> shares, net_amount |-> net_amount,
     transaction_type |-> transaction_type]

\* the state of the loop of eoy_traditional_holdings before the first
\* transaction; panicked records a panic! of a ShareValues method
ReplayStart(trad_holdings, dist) ==
    [enough_transaction |-> FALSE, total_transactions |-> 0,
     eoy_holdings |-> trad_holdings, distributions |-> dist, panicked |-> FALSE]

\* variant of InWindow: trade_date >= previous_year
InWindowInclusive(transaction, previous_year, traditional_acct_num) ==
    /\ ~DateLt(transaction.trade_date, previous_year)
    /\ transaction.account_number = traditional_acct_num

\* the window test of the loop
InWindow(transaction, previous_year, traditional_acct_num) ==
    /\ DateLt(previous_year, transaction.trade_date)
    /\ transaction.account_number = traditional_acct_num

\* self.distributions.entry(account).or_insert(0.0) -= net_amount
TakeDistribution(dist, account_number, net_amount) ==
    LET so_far == IF account_number \in DOMAIN dist THEN dist[account_number] ELSE 0
    IN  [a \in (DOMAIN dist) \cup {account_number} |->
            IF a = account_number THEN so_far - net_amount ELSE dist[a]]

\* eoy_holdings.subtract_stock_value(symbol, value) inside the loop
Subtracted(st, stock_symbol, value) ==
    IF Panics(stock_symbol) THEN [st EXCEPT !.panicked = TRUE]
    ELSE [st EXCEPT !.eoy_holdings = SubtractStockValue(@, stock_symbol, value)]

\* variant of WindowBranch: the test symbol != StockSymbol::Empty left out
WindowBranchNoEmptyTest(transaction, following_year) ==
    IF transaction.symbol = "VMFXX" THEN "cash" ELSE "shares"

\* variant of WindowBranch: the VMFXX arm left out, cash handled as shares
WindowBranchSlip(transaction, following_year) ==
    IF transaction.symbol # "Empty" THEN "shares"
    ELSE IF transaction.transaction_type = "DISTRIBUTION"
            /\ DateLt(transaction.trade_date, following_year) THEN "distribution"
    ELSE "skip"

\* the branch of the loop body for a transaction inside the window
WindowBranch(transaction, following_year) ==
    IF transaction.symbol = "VMFXX" THEN "cash"
    ELSE IF transaction.symbol # "Empty" THEN "shares"
    ELSE IF transaction.transaction_type = "DISTRIBUTION"
            /\ DateLt(transaction.trade_date, following_year) THEN "distribution"
    ELSE "skip"

\* one iteration of the loop of eoy_traditional_holdings
ReplayStep(st, transaction, previous_year, following_year, traditional_acct_num) ==
    IF st.panicked THEN st
    ELSE IF InWindow(transaction, previous_year, traditional_acct_num)
    THEN LET counted == [st EXCEPT !.total_transactions = @ + 1]
             branch == WindowBranch(transaction, following_year)
         IN  CASE branch = "cash" ->
                    Subtracted(counted, transaction.symbol, transaction.net_amount)
               [] branch = "shares" ->
                    Subtracted(counted, transaction.symbol, transaction.shares)
               [] branch = "distribution" ->
                    [counted EXCEPT !.distributions =
                        TakeDistribution(@, transaction.account_number,
                                         transaction.net_amount)]
               [] OTHER -> counted
    ELSE [st EXCEPT !.enough_transaction = TRUE]

RECURSIVE Replay(_, _, _, _, _, _)
Replay(ledger, i, st, previous_year, following_year, traditional_acct_num) ==
    IF i > Len(ledger) THEN st
    ELSE Replay(ledger, i + 1,
                ReplayStep(st, ledger[i], previous_year, following_year,
                           traditional_acct_num),
                previous_year, following_year, traditional_acct_num)

\* variant of ReplayOutcome: the total_transactions == 0 arm left out
ReplayOutcomeSlip(st) ==
    IF ~st.enough_transaction THEN None
    ELSE Some(st.eoy_holdings)

\* what eoy_traditional_holdings returns from the final loop state (when
\* the loop did not panic)
ReplayOutcome(st) ==
    IF ~st.enough_transaction THEN None
    ELSE IF st.total_transactions = 0 THEN None
    ELSE Some(st.eoy_holdings)

\* eoy_traditional_holdings(year, traditional_acct_num, trad_holdings) on a
\* store with ledger `ledger` and distributions map `dist`: the final loop state
EoyTraditionalHoldings(ledger, dist, year, traditional_acct_num, trad_holdings) ==
    LET previous_year == Dec31(year - 1)
        following_year == AddDays(previous_year, 365)
    IN  Replay(ledger, 1, ReplayStart(trad_holdings, dist), previous_year,
               following_year, traditional_acct_num)

---------------------------------------------------------------------------
(* The required minimum distribution.  A divisor of the distribution table
   is kept in tenths, as the table prints it; the table itself is read from
   a file outside the program and is an input here. *)

DivisorScale == 10

\* traditional_value / divisor in f32: mills divided by tenths, in mills
Quotient(traditional_value, divisor) ==
    IF divisor = 0 THEN NonFinite
    ELSE (traditional_value * DivisorScale) \div divisor

\* calc::calculate_minimum_distribution once the file is parsed into
\* distribution_table
CalculateMinimumDistribution(age, traditional_value, distribution_table) ==
    IF age \in DOMAIN distribution_table
    THEN Ok(Quotient(traditional_value, distribution_table[age]))
    ELSE Ok(0)

\* VanguardHoldings::distributions(account_number); the click handler calls
\* it by the name get_distributions
GetDistributions(dist, account_number) ==
    IF account_number \in DOMAIN dist THEN dist[account_number] ELSE 0

\* *self.distribution_table.keys().min().unwrap_or(&70)
MinimumAge(distribution_table) ==
    IF DOMAIN distribution_table = {} THEN 70
    ELSE CHOOSE k \in DOMAIN distribution_table :
             \A j \in DOMAIN distribution_table : k <= j

\* *self.distribution_table.get(&age).unwrap_or(&0.0)
MinimumDistributionDiv(distribution_table, age) ==
    IF age \in DOMAIN distribution_table THEN distribution_table[age] ELSE 0

FiguresText == "Minimum distribution: So far: To go:"

\* variant of DistributionFigures: left = minimum_distribution - so_far
DistributionFiguresNoFloor(traditional_value, minimum_distribution_div, so_far) ==
    LET minimum_distribution == Quotient(traditional_value, minimum_distribution_div)
    IN  [text |-> FiguresText, minimum_distribution |-> minimum_distribution,
         so_far |-> so_far, left |-> minimum_distribution - so_far]

\* the three figures the click handler formats into distribution_needed
DistributionFigures(traditional_value, minimum_distribution_div, so_far) ==
    LET minimum_distribution == Quotient(traditional_value, minimum_distribution_div)
        left == IF minimum_distribution - so_far > 0
                THEN minimum_distribution - so_far ELSE 0
    IN  [text |-> FiguresText, minimum_distribution |-> minimum_distribution,
         so_far |-> so_far, left |-> left]

---------------------------------------------------------------------------
(* Bounds of the model and the inputs they give *)

MaxPortfolio == 2    \* imported holdings of an account: Portfolio(0..MaxPortfolio)
AddSteps == 3        \* an external holding is 0 or AddSteps steps
MaxPctSteps == 4     \* custom percentages: 0..MaxPctSteps quarters
MaxDrift == 2        \* sub-allocation inputs off 100 % by up to MaxDrift tenths
MaxLedger == 2       \* transactions in an imported ledger
MaxEoyCalls == 2     \* eoy_value calls on one imported store
MaxSvOps == 2        \* operations applied in a row to one ShareValues
MaxProduct == 1073741824   \* largest slot of a product (32-bit integers of TLC)
MaxImports == 2      \* files the user can pick: file n holds Portfolio(n), Quotes(n + 1)
MaxInteractions == 5 \* clicks and edits of the user in one run of the application

\* every dollar input is a multiple of 90 dollars
Step == 90 * Mill
PctStep == 25 * PctScale

\* the clock's year in two runs of the program
ClockYears == {2005, 2025}

\* the account numbers of the import
TradAcct == 11111111
OtherAcct == 22222222

Portfolio(k) ==
    [f \in AllFields |->
        CASE f = "vv"    -> k * Step
          [] f = "bnd"   -> (k \div 2) * Step
          [] f = "vmfxx" -> (k \div 2) * Step
          [] f = "other" -> (k \div 3) * Step
          [] OTHER       -> 0]

Portfolios == {Portfolio(k) : k \in 0..MaxPortfolio}
CashChoices == {0 - (2 * Step), 0 - Step, 0, Step}
AddChoices == {0, AddSteps * Step}
PctChoices == {k * PctStep : k \in 0..MaxPctSteps}
DriftChoices == (0 - MaxDrift)..MaxDrift

\* quotes of an import: every tradable bucket priced q dollars, the rest 1.0
Quotes(q) ==
    [f \in AllFields |-> IF f \in {"vmfxx", "other", "outside_bond", "outside_stock"}
                         THEN 1 ELSE q]
QuotePrices == {1, 2, 5}

\* retirement years of the to_buy runs, as offsets from the clock's year
YearOffsets == {-6, 0, 10, 27}

\* the parameters of to_buy
ToBuyInput(percent_stock, retirement_year, use_brokerage_retirement, stock_quotes, roth_holdings, roth_cash_add, roth_adds, traditional_holdings, traditional_cash_add, traditional_adds, brokerage_holdings, brokerage_cash_add, brokerage_adds) ==
    [percent_stock |-> percent_stock,
     retirement_year |-> retirement_year,
     use_brokerage_retirement |-> use_brokerage_retirement,
     stock_quotes |-> stock_quotes,
     roth_holdings |-> roth_holdings,
     roth_cash_add |-> roth_cash_add,
     roth_us_stock_add |-> roth_adds[1],
     roth_int_stock_add |-> roth_adds[2],
     roth_us_bond_add |-> roth_adds[3],
     roth_int_bond_add |-> roth_adds[4],
     traditional_holdings |-> traditional_holdings,
     traditional_cash_add |-> traditional_cash_add,
     traditional_us_stock_add |-> traditional_adds[1],
     traditional_int_stock_add |-> traditional_adds[2],
     traditional_us_bond_add |-> traditional_adds[3],
     traditional_int_bond_add |-> traditional_adds[4],
     brokerage_holdings |-> brokerage_holdings,
     brokerage_cash_add |-> brokerage_cash_add,
     brokerage_us_stock_add |-> brokerage_adds[1],
     brokerage_int_stock_add |-> brokerage_adds[2],
     brokerage_us_bond_add |-> brokerage_adds[3],
     brokerage_int_bond_add |-> brokerage_adds[4]]

NoAdds == <<0, 0, 0, 0>>

\* runs that vary the retirement accounts and the pooling of the brokerage
RetirementRuns(now) ==
    { ToBuyInput(60 * PctScale, now + off, use, Quotes(1),
                 rh, rc, <<ra, 0, 0, 0>>, th, tc, NoAdds, bh, bc, NoAdds) :
        off \in YearOffsets, use \in BOOLEAN,
        rh \in Portfolios, rc \in CashChoices, ra \in AddChoices,
        th \in Portfolios, tc \in {0 - (2 * Step), 0},
        bh \in Portfolios, bc \in {0 - Step, 0} }

\* runs that vary the brokerage account, its external holdings and the quotes
BrokerageRuns(now) ==
    { ToBuyInput(pct, now + 10, FALSE, Quotes(q),
                 rh, 0, NoAdds, ShareValuesNew, 0, NoAdds,
                 bh, bc, <<us, is, ub, ib>>) :
        pct \in PctChoices, q \in QuotePrices,
        rh \in {Portfolio(0), Portfolio(1)},
        bh \in Portfolios, bc \in CashChoices,
        us \in AddChoices, is \in AddChoices, ub \in AddChoices, ib \in AddChoices }

\* an imported brokerage account that already stands at the target of its
\* stock percentage, and the runs on it alone
BalancedHoldings(percent_stock) ==
    NewTarget(SubAllocationsNewCustom(
                  AllocationsCustom(percent_stock, Pct100 - percent_stock, 0).val).val,
              2 * Step, 0, 0, 0, 0)
BalancedRuns(now) ==
    { ToBuyInput(pct, now + 10, FALSE, Quotes(q),
                 ShareValuesNew, 0, NoAdds, ShareValuesNew, 0, NoAdds,
                 BalancedHoldings(pct), 0, NoAdds) :
        pct \in PctChoices, q \in QuotePrices }

ToBuyInputs(now) == RetirementRuns(now) \cup BrokerageRuns(now) \cup BalancedRuns(now)

\* the years offered to Allocations::retirement
YearChoices == (YearLow - 2)..(YearHigh + 1)

\* the ledgers of an import: trade dates around the year's ends, five kinds
\* of transaction of the traditional account and two of another account
TradeDates(now) ==
    {Dec30(now - 1), Dec31(now - 1), Dec30(now), Dec31(now), Jan1(now + 1)}
TxShares == 5 * Mill
TxNetAmount == 0 - (50 * Mill)
Transactions(now) ==
    { Transaction(TradAcct, d, sym, TxShares, TxNetAmount, "BUY") :
        d \in TradeDates(now), sym \in {"VV", "VMFXX", "Other"} }
    \cup
    { Transaction(TradAcct, d, "Empty", 0, TxNetAmount, ty) :
        d \in TradeDates(now), ty \in {"DISTRIBUTION", "DIVIDEND"} }
    \cup
    { Transaction(OtherAcct, d, "VV", TxShares, TxNetAmount, "BUY") :
        d \in TradeDates(now) }
    \cup
    { Transaction(OtherAcct, d, "Empty", 0, TxNetAmount, "DISTRIBUTION") :
        d \in TradeDates(now) }
Ledgers(now) ==
    UNION { [1..n -> Transactions(now)] : n \in 0..MaxLedger }

\* the end of year quote the quote provider returns for the tradable buckets
EoyQuotePrices == {2}

\* the later clock year: its two distribution years are a leap year and a
\* common year
LatestClockYear == CHOOSE y \in ClockYears : \A z \in ClockYears : z <= y

\* the ledgers of the required distribution runs, in date order: at most one
\* entry before the boundary of the later distribution year, then at most
\* one purchase or distribution inside its window
DistributionAmounts == {0 - (20 * Mill), TxNetAmount}
OlderEntries(now) ==
    { Transaction(TradAcct, Dec30(now - 1), "VV", TxShares, TxNetAmount, "BUY") }
WindowEntries(now) ==
    { Transaction(TradAcct, Dec30(now), "VV", TxShares, TxNetAmount, "BUY") }
    \cup
    { Transaction(TradAcct, Dec30(now), "Empty", 0, amount, "DISTRIBUTION") :
        amount \in DistributionAmounts }
AppLedgers(now) ==
    { older \o inside :
        older \in {<<>>} \cup {<<t>> : t \in OlderEntries(now)},
        inside \in {<<>>} \cup {<<t>> : t \in WindowEntries(now)} }

\* distribution tables: none loaded, one with a gap at 74, one with a zero
\* divisor
DistributionTables ==
    { [a \in {} |-> 0], (73 :> 250) @@ (75 :> 200), (74 :> 0) }

\* birth years of a profile: ages 72 to 75 in the two distribution years, and
\* a birth year after both
BirthYears(now) == {now - 75, now - 74, now - 73, now + 1}
BirthYearChoices(now) == {None} \cup {Some(b) : b \in BirthYears(now)}
TradAccountChoices == {None, Some(TradAcct)}
TraditionalValues == {0, 7 * Step}

\* the slots of struct ShareValues in the order they are declared
FieldOrder ==
    <<"vxus", "bndx", "bnd", "vwo", "vo", "vb", "vtc", "vv", "vtip", "vmfxx",
      "other", "outside_bond", "outside_stock">>

\* whole-number operands of the ShareValues operators with no zero slot: 2
\* in every slot, a different number in every slot, and one with the
\* smallest f32 whose successor is not an f32 in outside_stock
SvOperands ==
    { [f \in AllFields |-> 2],
      [f \in AllFields |-> CHOOSE i \in 1..Len(FieldOrder) : FieldOrder[i] = f],
      [f \in AllFields |-> IF f = "outside_stock" THEN F32Exact ELSE 1] }
SvSymbols == {"VV", "VTIP", "VMFXX", "Other", "Empty"}

\* ticker strings of an export: the ten the program knows, the empty
\* string, and three it does not know
Tickers == Tradable \cup {"VMFXX", "", "vv", "VTI", "Empty"}
SvValues == {1, 6}

NoCall == [op |-> "none"]

\* VaporeApp::default: distribution_needed before any table is loaded
NoDistributionText == [text |-> "Load distribution table for results"]
NoDistributions == [a \in {} |-> 0]

\* VaporeApp::default: no profile, the name field empty, no holdings copied
AppDefault ==
    [profile_name |-> "",
     birth_year |-> [n \in {} |-> 0],
     retirement_year |-> [n \in {} |-> 0],
     brokerage_stock |-> [n \in {} |-> 0],
     brokerage_account_num |-> [n \in {} |-> 0],
     roth_account_num |-> [n \in {} |-> 0],
     trad_account_num |-> [n \in {} |-> 0],
     use_brokerage_retirement |-> FALSE,
     brokerage_holdings |-> ShareValuesNew,
     traditional_holdings |-> ShareValuesNew,
     roth_holdings |-> ShareValuesNew]

---------------------------------------------------------------------------
(* The engine calls: each action is one call with its inputs and its result *)

\* Allocations::retirement(year), then SubAllocations::new_custom on success
\* (retirement_calc's first two statements)
Retirement(year) ==
    /\ pc = "idle"
    /\ LET a == AllocationsRetirement(year, this_year)
       IN  call' = [op |-> "retirement", year |-> year, result |-> a,
                    sub |-> IF a.ok THEN SubAllocationsNewCustom(a.val)
                            ELSE a]
    /\ pc' = "done"
    /\ UNCHANGED <<store_quotes, app, frame, import_threads, interactions,
                   this_year, accounts_values, transactions, distributions,
                   eoy_calls, eoy_result, distribution_needed, share_values, share_values_ops>>

\* Allocations::custom(stock, bond, inflation protected)
Custom(total_stock, total_bond, total_inflation_protected) ==
    /\ pc = "idle"
    /\ call' = [op |-> "custom", total_stock |-> total_stock,
                total_bond |-> total_bond,
                total_inflation_protected |-> total_inflation_protected,
                result |-> AllocationsCustom(total_stock, total_bond,
                                             total_inflation_protected)]
    /\ pc' = "done"
    /\ UNCHANGED <<store_quotes, app, frame, import_threads, interactions,
                   this_year, accounts_values, transactions, distributions,
                   eoy_calls, eoy_result, distribution_needed, share_values, share_values_ops>>

\* SubAllocations::new_custom on an Allocations value
NewCustom(allocations) ==
    /\ pc = "idle"
    /\ call' = [op |-> "new_custom", allocations |-> allocations,
                result |-> SubAllocationsNewCustom(allocations)]
    /\ pc' = "done"
    /\ UNCHANGED <<store_quotes, app, frame, import_threads, interactions,
                   this_year, accounts_values, transactions, distributions,
                   eoy_calls, eoy_result, distribution_needed, share_values, share_values_ops>>

\* calc::to_buy
ToBuy(in) ==
    /\ pc = "idle"
    /\ call' = [op |-> "to_buy", in |-> in, result |-> ToBuyResult(in, this_year)]
    /\ pc' = "done"
    /\ UNCHANGED <<store_quotes, app, frame, import_threads, interactions,
                   this_year, accounts_values, transactions, distributions,
                   eoy_calls, eoy_result, distribution_needed, share_values, share_values_ops>>

\* the caller drops the result; the next call starts
Return ==
    /\ pc = "done"
    /\ pc' = "idle"
    /\ call' = NoCall
    /\ UNCHANGED <<store_quotes, app, frame, import_threads, interactions,
                   this_year, accounts_values, transactions, distributions,
                   eoy_calls, eoy_result, distribution_needed, share_values, share_values_ops>>

\* VanguardHoldings::eoy_value(year, traditional_acct_num) on the store, with
\* the end of year quotes the quote provider returned: the distributions map
\* it leaves and what it returns.  total_transactions and enough_transaction
\* are the loop's counters when it ended.
EoyValueResult(year, traditional_acct_num, q) ==
    LET trad_holdings ==
            IF traditional_acct_num \in DOMAIN accounts_values
            THEN accounts_values[traditional_acct_num]
            ELSE ShareValuesNew
        final == EoyTraditionalHoldings(transactions, distributions, year,
                                        traditional_acct_num, trad_holdings)
        holdings == ReplayOutcome(final)
    IN  [distributions |-> final.distributions,
         result |->
             [year |-> year, account |-> traditional_acct_num,
              panicked |-> final.panicked,
              total_transactions |-> final.total_transactions,
              enough_transaction |-> final.enough_transaction,
              holdings |-> holdings,
              value |-> IF holdings.some /\ ~final.panicked
                        THEN Some(TotalValue(SvMul(holdings.val, Quotes(q))))
                        ELSE None]]

\* a call of eoy_value on the store
EoyValue(year, traditional_acct_num, q) ==
    /\ eoy_calls < MaxEoyCalls
    /\ LET eoy == EoyValueResult(year, traditional_acct_num, q)
       IN  /\ distributions' = eoy.distributions
           /\ eoy_result' = eoy.result
    /\ eoy_calls' = eoy_calls + 1
    /\ UNCHANGED <<store_quotes, app, frame, import_threads, interactions,
                   this_year, accounts_values, transactions, pc, call,
                   distribution_needed, share_values, share_values_ops>>

\* calc::calculate_minimum_distribution(age, traditional_value, csv_path)
MinimumDistribution(age, traditional_value, distribution_table) ==
    /\ call' = [op |-> "calculate_minimum_distribution", age |-> age,
                traditional_value |-> traditional_value,
                distribution_table |-> distribution_table,
                result |-> CalculateMinimumDistribution(age, traditional_value,
                                                        distribution_table)]
    /\ UNCHANGED <<store_quotes, app, frame, import_threads, interactions,
                   this_year, accounts_values, transactions, distributions, pc,
                   eoy_calls, eoy_result, distribution_needed, share_values,
                   share_values_ops>>

\* the click on "Load distribution table" (VaporeApp::update) with the table
\* the picked file holds, the selected distribution year and the profile's
\* birth year and traditional account number.  age is a u32 difference: with
\* a birth year after the distribution year a build with overflow checks
\* panics and a build without them wraps to an age above every key.
LoadDistributionTable(distribution_table, distribution_year, birth_year, trad_account_num, q, overflow_checks) ==
    /\ eoy_calls < MaxEoyCalls
    /\ LET unset == ~birth_year.some \/ ~trad_account_num.some
           wraps == ~unset /\ birth_year.val > distribution_year
           age == IF unset \/ wraps THEN 0 ELSE distribution_year - birth_year.val
           panics == wraps /\ overflow_checks
           old_enough == wraps \/ age >= MinimumAge(distribution_table)
           calls == ~unset /\ ~panics /\ old_enough
           eoy == EoyValueResult(distribution_year, trad_account_num.val, q)
           minimum_distribution_div ==
               IF wraps THEN 0 ELSE MinimumDistributionDiv(distribution_table, age)
       IN  /\ call' = [op |-> "load_distribution_table",
                       distribution_table |-> distribution_table,
                       distribution_year |-> distribution_year,
                       birth_year |-> birth_year,
                       trad_account_num |-> trad_account_num,
                       wraps |-> wraps,
                       traditional_value |-> IF calls THEN eoy.result.value ELSE None,
                       before |-> distribution_needed]
           /\ distribution_needed' =
                  IF unset THEN distribution_needed
                  ELSE IF panics THEN [text |-> Panic]
                  ELSE IF ~old_enough THEN [text |-> "No distribution needed"]
                  ELSE IF eoy.result.panicked THEN [text |-> Panic]
                  ELSE IF ~eoy.result.value.some
                  THEN [text |-> "More transaction history needed"]
                  ELSE IF minimum_distribution_div = 0 THEN distribution_needed
                  ELSE DistributionFigures(
                           eoy.result.value.val, minimum_distribution_div,
                           GetDistributions(eoy.distributions, trad_account_num.val))
           /\ distributions' = IF calls THEN eoy.distributions ELSE distributions
           /\ eoy_result' = IF calls THEN eoy.result ELSE eoy_result
           /\ eoy_calls' = IF calls THEN eoy_calls + 1 ELSE eoy_calls
    /\ UNCHANGED <<store_quotes, app, frame, import_threads, interactions,
                   this_year, accounts_values, transactions, pc, share_values,
                   share_values_ops>>

---------------------------------------------------------------------------
(* Operations on one ShareValues, share_values.  A panic! ends the run. *)

\* share_values.add_stock_value(stock_symbol, value)
OpAddStockValue(stock_symbol, value) ==
    /\ pc = "idle" /\ share_values_ops < MaxSvOps
    /\ call' = [op |-> "add_stock_value", a |-> share_values,
                stock_symbol |-> stock_symbol, value |-> value]
    /\ IF Panics(stock_symbol)
       THEN pc' = Panic /\ share_values' = share_values
       ELSE pc' = pc /\ share_values' = AddStockValue(share_values, stock_symbol, value)
    /\ share_values_ops' = share_values_ops + 1
    /\ UNCHANGED <<store_quotes, app, frame, import_threads, interactions,
                   this_year, accounts_values, transactions, distributions,
                   eoy_calls, eoy_result, distribution_needed>>

\* share_values.subtract_stock_value(stock_symbol, value)
OpSubtractStockValue(stock_symbol, value) ==
    /\ pc = "idle" /\ share_values_ops < MaxSvOps
    /\ call' = [op |-> "subtract_stock_value", a |-> share_values,
                stock_symbol |-> stock_symbol, value |-> value]
    /\ IF Panics(stock_symbol)
       THEN pc' = Panic /\ share_values' = share_values
       ELSE pc' = pc
            /\ share_values' = SubtractStockValue(share_values, stock_symbol, value)
    /\ share_values_ops' = share_values_ops + 1
    /\ UNCHANGED <<store_quotes, app, frame, import_threads, interactions,
                   this_year, accounts_values, transactions, distributions,
                   eoy_calls, eoy_result, distribution_needed>>

\* share_values.stock_value(StockSymbol::new(symbol)): the slot read for a
\* ticker string
OpStockValue(symbol) ==
    /\ pc = "idle" /\ share_values_ops < MaxSvOps
    /\ LET stock_symbol == StockSymbolNew(symbol)
       IN  /\ call' = [op |-> "stock_value", a |-> share_values, symbol |-> symbol,
                       stock_symbol |-> stock_symbol,
                       result |-> StockValue(share_values, stock_symbol)]
           /\ pc' = IF Panics(stock_symbol) THEN Panic ELSE pc
    /\ share_values_ops' = share_values_ops + 1
    /\ UNCHANGED <<store_quotes, app, frame, import_threads, interactions,
                   this_year, accounts_values, transactions, distributions,
                   eoy_calls, eoy_result, distribution_needed, share_values>>

\* share_values.add_outside_stock_value(stock_value)
OpAddOutsideStockValue(stock_value) ==
    /\ pc = "idle" /\ share_values_ops < MaxSvOps
    /\ call' = [op |-> "add_outside_stock_value", a |-> share_values,
                value |-> stock_value]
    /\ share_values' = AddOutsideStockValue(share_values, stock_value)
    /\ share_values_ops' = share_values_ops + 1
    /\ UNCHANGED <<store_quotes, app, frame, import_threads, interactions,
                   this_year, accounts_values, transactions, distributions, pc,
                   eoy_calls, eoy_result, distribution_needed>>

\* share_values.add_outside_bond_value(bond_value)
OpAddOutsideBondValue(bond_value) ==
    /\ pc = "idle" /\ share_values_ops < MaxSvOps
    /\ call' = [op |-> "add_outside_bond_value", a |-> share_values,
                value |-> bond_value]
    /\ share_values' = AddOutsideBondValue(share_values, bond_value)
    /\ share_values_ops' = share_values_ops + 1
    /\ UNCHANGED <<store_quotes, app, frame, import_threads, interactions,
                   this_year, accounts_values, transactions, distributions, pc,
                   eoy_calls, eoy_result, distribution_needed>>

\* share_values = share_values + b
OpAdd(b) ==
    /\ pc = "idle" /\ share_values_ops < MaxSvOps
    /\ call' = [op |-> "add", a |-> share_values, b |-> b]
    /\ share_values' = SvAdd(share_values, b)
    /\ share_values_ops' = share_values_ops + 1
    /\ UNCHANGED <<store_quotes, app, frame, import_threads, interactions,
                   this_year, accounts_values, transactions, distributions, pc,
                   eoy_calls, eoy_result, distribution_needed>>

\* share_values = share_values - b
OpSub(b) ==
    /\ pc = "idle" /\ share_values_ops < MaxSvOps
    /\ call' = [op |-> "sub", a |-> share_values, b |-> b]
    /\ share_values' = SvSub(share_values, b)
    /\ share_values_ops' = share_values_ops + 1
    /\ UNCHANGED <<store_quotes, app, frame, import_threads, interactions,
                   this_year, accounts_values, transactions, distributions, pc,
                   eoy_calls, eoy_result, distribution_needed>>

\* share_values = share_values * b, for the products within MaxProduct
OpMul(b) ==
    /\ pc = "idle" /\ share_values_ops < MaxSvOps
    /\ \A f \in AllFields : /\ share_values[f] <= MaxProduct \div b[f]
                             /\ 0 - share_values[f] <= MaxProduct \div b[f]
    /\ call' = [op |-> "mul", a |-> share_values, b |-> b]
    /\ share_values' = SvMul(share_values, b)
    /\ share_values_ops' = share_values_ops + 1
    /\ UNCHANGED <<store_quotes, app, frame, import_threads, interactions,
                   this_year, accounts_values, transactions, distributions, pc,
                   eoy_calls, eoy_result, distribution_needed>>

\* share_values = share_values / b, for the operands whose quotient is a
\* whole number in every slot
OpDiv(b) ==
    /\ pc = "idle" /\ share_values_ops < MaxSvOps
    /\ \A f \in AllFields : share_values[f] % b[f] = 0
    /\ call' = [op |-> "div", a |-> share_values, b |-> b]
    /\ share_values' = SvDiv(share_values, b)
    /\ share_values_ops' = share_values_ops + 1
    /\ UNCHANGED <<store_quotes, app, frame, import_threads, interactions,
                   this_year, accounts_values, transactions, distributions, pc,
                   eoy_calls, eoy_result, distribution_needed>>

---------------------------------------------------------------------------
(* Specifications *)

\* the allocation model and the rebalance engine
Init ==
    /\ this_year \in ClockYears
    /\ pc = "idle"
    /\ call = NoCall
    /\ accounts_values = [a \in {} |-> ShareValuesNew]
    /\ transactions = <<>>
    /\ distributions = NoDistributions
    /\ eoy_calls = 0
    /\ eoy_result = NoCall
    /\ distribution_needed = NoDistributionText
    /\ share_values = ShareValuesNew
    /\ share_values_ops = 0
    /\ store_quotes = ShareValuesNewQuote
    /\ app = AppDefault
    /\ frame = "open"
    /\ import_threads = 0
    /\ interactions = 0

\* a call starts only when none is in progress: the guard stands before the
\* inputs so that they are drawn once per idle state
Next ==
    \/ /\ pc = "idle"
       /\ \E year \in YearChoices : Retirement(year)
    \/ /\ pc = "idle"
       /\ \E s \in PctChoices, b \in PctChoices, i \in PctChoices : Custom(s, b, i)
    \/ /\ pc = "idle"
       /\ \E s \in PctChoices, b \in PctChoices, i \in DriftChoices :
              NewCustom(Allocations(s, b, i))
    \/ /\ pc = "idle"
       /\ \E in \in ToBuyInputs(this_year) : ToBuy(in)
    \/ Return

Spec == Init /\ [][Next]_vars

\* the ledger replay on an imported store
InitRmd ==
    /\ this_year = LatestClockYear
    /\ pc = "idle"
    /\ call = NoCall
    /\ accounts_values = [a \in {TradAcct, OtherAcct} |-> Portfolio(MaxPortfolio)]
    /\ transactions \in Ledgers(this_year)
    /\ distributions = NoDistributions
    /\ eoy_calls = 0
    /\ eoy_result = NoCall
    /\ distribution_needed = NoDistributionText
    /\ share_values = ShareValuesNew
    /\ share_values_ops = 0
    /\ store_quotes = ShareValuesNewQuote
    /\ app = AppDefault
    /\ frame = "open"
    /\ import_threads = 0
    /\ interactions = 0

NextRmd ==
    \E year \in {this_year - 1, this_year}, q \in EoyQuotePrices :
        EoyValue(year, TradAcct, q)

SpecRmd == InitRmd /\ [][NextRmd]_vars

\* the required distribution of a profile on an imported store
InitApp ==
    /\ this_year = LatestClockYear
    /\ pc = "idle"
    /\ call = NoCall
    /\ accounts_values = [a \in {TradAcct, OtherAcct} |-> Portfolio(MaxPortfolio)]
    /\ transactions \in AppLedgers(this_year)
    /\ distributions = NoDistributions
    /\ eoy_calls = 0
    /\ eoy_result = NoCall
    /\ distribution_needed = NoDistributionText
    /\ share_values = ShareValuesNew
    /\ share_values_ops = 0
    /\ store_quotes = ShareValuesNewQuote
    /\ app = AppDefault
    /\ frame = "open"
    /\ import_threads = 0
    /\ interactions = 0

\* the two builds differ only when the u32 difference wraps
OverflowBuilds(distribution_year, birth_year) ==
    IF birth_year.some /\ birth_year.val > distribution_year
    THEN BOOLEAN ELSE {FALSE}

NextApp ==
    \/ \E age \in 72..75, traditional_value \in TraditionalValues,
          distribution_table \in DistributionTables :
           MinimumDistribution(age, traditional_value, distribution_table)
    \/ \E distribution_table \in DistributionTables,
          distribution_year \in {this_year - 1, this_year},
          birth_year \in BirthYearChoices(this_year),
          trad_account_num \in TradAccountChoices,
          q \in EoyQuotePrices :
        \E overflow_checks \in OverflowBuilds(distribution_year, birth_year) :
           LoadDistributionTable(distribution_table, distribution_year, birth_year,
                                 trad_account_num, q, overflow_checks)

SpecApp == InitApp /\ [][NextApp]_vars

\* the operations of ShareValues on one value, from ShareValues::new()
NextSv ==
    \/ \E stock_symbol \in SvSymbols, value \in SvValues :
           OpAddStockValue(stock_symbol, value)
    \/ \E stock_symbol \in SvSymbols, value \in SvValues :
           OpSubtractStockValue(stock_symbol, value)
    \/ \E symbol \in Tickers : OpStockValue(symbol)
    \/ \E value \in SvValues : OpAddOutsideStockValue(value)
    \/ \E value \in SvValues : OpAddOutsideBondValue(value)
    \/ \E b \in SvOperands : OpAdd(b)
    \/ \E b \in SvOperands : OpSub(b)
    \/ \E b \in SvOperands : OpMul(b)
    \/ \E b \in SvOperands : OpDiv(b)

SpecSv == Init /\ [][NextSv]_vars

---------------------------------------------------------------------------
(* app.rs: one frame of VaporeApp::update and the import thread.  The user *)
(* interface thread runs update from top to bottom, taking the mutex of    *)
(* the store once at each place that reads it; an import thread takes it   *)
(* once, to replace the store.  A frame carries at most one interaction.   *)

\* variant of InsertDefault: the insert is not guarded by contains_key
InsertOverwrites(map, key, value) ==
    [n \in DOMAIN map \cup {key} |-> IF n = key THEN value ELSE map[n]]

\* the guarded insert of "Create": the default goes in when the key is absent
InsertDefault(map, key, value) ==
    IF key \in DOMAIN map THEN map
    ELSE [n \in DOMAIN map \cup {key} |-> IF n = key THEN value ELSE map[n]]

\* HashMap::remove of "Delete"
Remove(map, key) == [n \in DOMAIN map \ {key} |-> map[n]]

\* "Open Vanguard File": a click spawns an import thread; then the frame goes
\* on only if the store behind the mutex holds an account
OpenVanguardFile(clicked) ==
    /\ pc = "idle"
    /\ frame = "open"
    /\ clicked => interactions < MaxInteractions
    /\ import_threads' = IF clicked THEN import_threads + 1 ELSE import_threads
    /\ interactions' = IF clicked THEN interactions + 1 ELSE interactions
    /\ frame' = IF DOMAIN accounts_values = {} THEN "open" ELSE "profile"
    /\ UNCHANGED <<store_quotes, app, accounts_values, pc, call,
                   this_year, transactions, distributions, eoy_calls, eoy_result,
                   distribution_needed, share_values, share_values_ops>>

\* the thread of execute: the file dialog returns a file or nothing; the
\* parsed file replaces the whole store under the mutex
ImportThread(file) ==
    /\ pc = "idle"
    /\ import_threads > 0
    /\ import_threads' = import_threads - 1
    /\ IF file.some
       THEN /\ accounts_values' = [a \in {TradAcct, OtherAcct} |-> Portfolio(file.val)]
            /\ store_quotes' = Quotes(file.val + 1)
            /\ transactions' = <<>>
            /\ distributions' = NoDistributions
       ELSE UNCHANGED <<accounts_values, store_quotes, transactions, distributions>>
    /\ UNCHANGED <<app, frame, interactions, this_year, pc, call, eoy_calls, eoy_result,
                   distribution_needed, share_values, share_values_ops>>

\* the profile selector and the text field: both write profile_name
EditProfileName(name) ==
    /\ pc = "idle"
    /\ frame = "profile"
    /\ interactions < MaxInteractions
    /\ app' = [app EXCEPT !.profile_name = name]
    /\ call' = [op |-> "profile_name"]
    /\ frame' = "brokerage"
    /\ interactions' = interactions + 1
    /\ UNCHANGED <<store_quotes, import_threads, accounts_values, pc,
                   this_year, transactions, distributions, eoy_calls, eoy_result,
                   distribution_needed, share_values, share_values_ops>>

\* "Create" clicked
Create ==
    /\ pc = "idle"
    /\ frame = "profile"
    /\ interactions < MaxInteractions
    /\ app' = [app EXCEPT
                 !.birth_year = InsertDefault(@, app.profile_name, 1980),
                 !.retirement_year = InsertDefault(@, app.profile_name, 2050),
                 !.brokerage_stock = InsertDefault(@, app.profile_name, 65),
                 !.brokerage_account_num = InsertDefault(@, app.profile_name, 0),
                 !.roth_account_num = InsertDefault(@, app.profile_name, 0),
                 !.trad_account_num = InsertDefault(@, app.profile_name, 0)]
    /\ call' = [op |-> "create", before |-> app]
    /\ frame' = "brokerage"
    /\ interactions' = interactions + 1
    /\ UNCHANGED <<store_quotes, import_threads, accounts_values, pc,
                   this_year, transactions, distributions, eoy_calls, eoy_result,
                   distribution_needed, share_values, share_values_ops>>

\* variant of Delete: the Roth account number of the profile is kept
DeleteKeepsRoth ==
    /\ pc = "idle"
    /\ frame = "profile"
    /\ interactions < MaxInteractions
    /\ app' = [app EXCEPT
                 !.birth_year = Remove(@, app.profile_name),
                 !.retirement_year = Remove(@, app.profile_name),
                 !.brokerage_stock = Remove(@, app.profile_name),
                 !.brokerage_account_num = Remove(@, app.profile_name),
                 !.trad_account_num = Remove(@, app.profile_name)]
    /\ call' = [op |-> "delete", before |-> app]
    /\ frame' = "brokerage"
    /\ interactions' = interactions + 1
    /\ UNCHANGED <<store_quotes, import_threads, accounts_values, pc,
                   this_year, transactions, distributions, eoy_calls, eoy_result,
                   distribution_needed, share_values, share_values_ops>>

\* "Delete" clicked
Delete ==
    /\ pc = "idle"
    /\ frame = "profile"
    /\ interactions < MaxInteractions
    /\ app' = [app EXCEPT
                 !.birth_year = Remove(@, app.profile_name),
                 !.retirement_year = Remove(@, app.profile_name),
                 !.brokerage_stock = Remove(@, app.profile_name),
                 !.brokerage_account_num = Remove(@, app.profile_name),
                 !.roth_account_num = Remove(@, app.profile_name),
                 !.trad_account_num = Remove(@, app.profile_name)]
    /\ call' = [op |-> "delete", before |-> app]
    /\ frame' = "brokerage"
    /\ interactions' = interactions + 1
    /\ UNCHANGED <<store_quotes, import_threads, accounts_values, pc,
                   this_year, transactions, distributions, eoy_calls, eoy_result,
                   distribution_needed, share_values, share_values_ops>>

\* the sliders "Birth year" and "Retirement year", each shown when the
\* profile has an entry in its map
SlideYears(birth_year, retirement_year) ==
    /\ pc = "idle"
    /\ frame = "profile"
    /\ interactions < MaxInteractions
    /\ app.profile_name \in DOMAIN app.birth_year \cup DOMAIN app.retirement_year
    /\ app' = [app EXCEPT
                 !.birth_year = IF app.profile_name \in DOMAIN @
                                THEN [@ EXCEPT ![app.profile_name] = birth_year] ELSE @,
                 !.retirement_year = IF app.profile_name \in DOMAIN @
                                     THEN [@ EXCEPT ![app.profile_name] = retirement_year]
                                     ELSE @]
    /\ call' = [op |-> "slide_years"]
    /\ frame' = "brokerage"
    /\ interactions' = interactions + 1
    /\ UNCHANGED <<store_quotes, import_threads, accounts_values, pc,
                   this_year, transactions, distributions, eoy_calls, eoy_result,
                   distribution_needed, share_values, share_values_ops>>

\* the three account selectors: the choices are the accounts of the store
SelectAccountNumber(account, acct_num) ==
    /\ pc = "idle"
    /\ frame = "profile"
    /\ interactions < MaxInteractions
    /\ acct_num \in DOMAIN accounts_values
    /\ LET map == CASE account = "brokerage" -> "brokerage_account_num"
                    [] account = "traditional" -> "trad_account_num"
                    [] account = "roth" -> "roth_account_num"
       IN  /\ app.profile_name \in DOMAIN app[map]
           /\ app' = [app EXCEPT ![map] = [@ EXCEPT ![app.profile_name] = acct_num]]
    /\ call' = [op |-> "select_account"]
    /\ frame' = "brokerage"
    /\ interactions' = interactions + 1
    /\ UNCHANGED <<store_quotes, import_threads, accounts_values, pc,
                   this_year, transactions, distributions, eoy_calls, eoy_result,
                   distribution_needed, share_values, share_values_ops>>

\* the checkbox "Retirement" beside the brokerage account selector
CheckRetirement ==
    /\ pc = "idle"
    /\ frame = "profile"
    /\ interactions < MaxInteractions
    /\ app.profile_name \in DOMAIN app.brokerage_account_num
    /\ app' = [app EXCEPT !.use_brokerage_retirement = ~@]
    /\ call' = [op |-> "check_retirement"]
    /\ frame' = "brokerage"
    /\ interactions' = interactions + 1
    /\ UNCHANGED <<store_quotes, import_threads, accounts_values, pc,
                   this_year, transactions, distributions, eoy_calls, eoy_result,
                   distribution_needed, share_values, share_values_ops>>

\* a frame in which the user touches no widget of the profile panel, or none
\* of the sliders below the holdings
NoInteraction ==
    /\ pc = "idle"
    /\ frame \in {"profile", "inputs"}
    /\ frame' = IF frame = "profile" THEN "brokerage" ELSE "target"
    /\ UNCHANGED <<store_quotes, app, import_threads, interactions, accounts_values, pc, call,
                   this_year, transactions, distributions, eoy_calls, eoy_result,
                   distribution_needed, share_values, share_values_ops>>

\* the holdings of the profile's account are copied out of the store; an
\* account number the store does not hold gives ShareValues::default()
CopyHoldings(account) ==
    /\ pc = "idle"
    /\ frame = account
    /\ LET map == CASE account = "brokerage" -> "brokerage_account_num"
                    [] account = "traditional" -> "trad_account_num"
                    [] account = "roth" -> "roth_account_num"
           holdings == CASE account = "brokerage" -> "brokerage_holdings"
                         [] account = "traditional" -> "traditional_holdings"
                         [] account = "roth" -> "roth_holdings"
       IN  app' = IF app.profile_name \in DOMAIN app[map]
                  THEN [app EXCEPT ![holdings] =
                           IF app[map][app.profile_name] \in DOMAIN accounts_values
                           THEN accounts_values[app[map][app.profile_name]]
                           ELSE ShareValuesNew]
                  ELSE app
    /\ frame' = CASE account = "brokerage" -> "traditional"
                  [] account = "traditional" -> "roth"
                  [] account = "roth" -> "inputs"
    /\ UNCHANGED <<store_quotes, import_threads, interactions, accounts_values, pc, call,
                   this_year, transactions, distributions, eoy_calls, eoy_result,
                   distribution_needed, share_values, share_values_ops>>

\* the slider "Brokerage percentage stock"
SlideBrokerageStock(brokerage_stock) ==
    /\ pc = "idle"
    /\ frame = "inputs"
    /\ interactions < MaxInteractions
    /\ ~app.use_brokerage_retirement
    /\ app.profile_name \in DOMAIN app.brokerage_stock
    /\ app' = [app EXCEPT !.brokerage_stock[app.profile_name] = brokerage_stock]
    /\ call' = [op |-> "slide_brokerage_stock"]
    /\ frame' = "target"
    /\ interactions' = interactions + 1
    /\ UNCHANGED <<store_quotes, import_threads, accounts_values, pc,
                   this_year, transactions, distributions, eoy_calls, eoy_result,
                   distribution_needed, share_values, share_values_ops>>

\* "Update target holdings": the button is there when the profile has a
\* brokerage percentage and a retirement year; a click calls to_buy on the
\* copied holdings and on the quotes read from the store now, and unwraps
UpdateTargetHoldings(clicked) ==
    /\ pc = "idle"
    /\ frame = "target"
    /\ clicked => /\ interactions < MaxInteractions
                  /\ app.profile_name \in DOMAIN app.brokerage_stock
                  /\ app.profile_name \in DOMAIN app.retirement_year
    /\ IF clicked
       THEN \E in \in {ToBuyInput(app.brokerage_stock[app.profile_name] * PctScale,
                                   app.retirement_year[app.profile_name],
                                   app.use_brokerage_retirement, store_quotes,
                                   app.roth_holdings, 0, NoAdds,
                                   app.traditional_holdings, 0, NoAdds,
                                   app.brokerage_holdings, 0, NoAdds)} :
              \E result \in {ToBuyResult(in, this_year)} :
                /\ call' = [op |-> "to_buy", in |-> in, result |-> result]
                /\ pc' = IF result.ok THEN "idle" ELSE Panic
                /\ interactions' = interactions + 1
       ELSE UNCHANGED <<call, pc, interactions>>
    /\ frame' = "open"
    /\ UNCHANGED <<store_quotes, app, import_threads, accounts_values,
                   this_year, transactions, distributions, eoy_calls, eoy_result,
                   distribution_needed, share_values, share_values_ops>>

\* the application from VaporeApp::default, no file imported
InitGui ==
    /\ this_year = LatestClockYear
    /\ pc = "idle"
    /\ call = NoCall
    /\ accounts_values = [a \in {} |-> ShareValuesNew]
    /\ transactions = <<>>
    /\ distributions = NoDistributions
    /\ eoy_calls = 0
    /\ eoy_result = NoCall
    /\ distribution_needed = NoDistributionText
    /\ share_values = ShareValuesNew
    /\ share_values_ops = 0
    /\ store_quotes = ShareValuesNewQuote
    /\ app = AppDefault
    /\ frame = "open"
    /\ import_threads = 0
    /\ interactions = 0

NextGui ==
    \/ \E clicked \in BOOLEAN : OpenVanguardFile(clicked)
    \/ \E file \in {None} \cup {Some(n) : n \in 1..MaxImports} : ImportThread(file)
    \/ \E name \in {"", "joint"} : EditProfileName(name)
    \/ Create
    \/ Delete
    \/ \E birth_year \in {1950, 1980}, retirement_year \in {2035, 2050} :
           SlideYears(birth_year, retirement_year)
    \/ \E account \in {"brokerage", "traditional", "roth"}, acct_num \in {TradAcct, OtherAcct} :
           SelectAccountNumber(account, acct_num)
    \/ CheckRetirement
    \/ NoInteraction
    \/ \E account \in {"brokerage", "traditional", "roth"} : CopyHoldings(account)
    \/ \E brokerage_stock \in {40, 65} : SlideBrokerageStock(brokerage_stock)
    \/ \E clicked \in BOOLEAN : UpdateTargetHoldings(clicked)

SpecGui == InitGui /\ [][NextGui]_vars

---------------------------------------------------------------------------
(* Properties of the allocation model *)

ValidYearCall == call.op = "retirement" /\ call.result.ok

\* the retirement year of the last call, in years from the clock's year
YearsAway == call.year - this_year

AllocationSum(a) == a.total_stock + a.total_bond + a.total_inflation_protected

\* C6: for a supported year, with y = year - current year, the top-level
\* allocation is 29/53/18 for y < -5; stock 60 - (-2.8 (y - 5)), inflation
\* protected -1.8 (y - 5) and bond the rest for -5 <= y < 5; stock
\* 90 - 1.5 (25 - y), inflation protected 0 and bond the rest for
\* 5 <= y < 30; and 90/10/0 for y >= 30.  So y = 10 gives 67.5/32.5/0 and
\* y = 0 gives 46/45/9.
C6_GlidePath ==
    ValidYearCall =>
        LET y == YearsAway
            a == call.result.val
        IN  /\ y < -5 => a = Allocations(290, 530, 180)
            /\ (-5 <= y /\ y < 5) =>
                   /\ a.total_stock = 600 + (28 * (y - 5))
                   /\ a.total_inflation_protected = 18 * (5 - y)
                   /\ a.total_bond = 1000 - a.total_stock - a.total_inflation_protected
            /\ (5 <= y /\ y < 30) =>
                   /\ a.total_stock = 900 - (15 * (25 - y))
                   /\ a.total_inflation_protected = 0
                   /\ a.total_bond = 1000 - a.total_stock
            /\ y >= 30 => a = Allocations(900, 100, 0)
            /\ y = 10 => a = Allocations(675, 325, 0)
            /\ y = 0 => a = Allocations(460, 450, 90)

C6_Witness ==
    /\ ValidYearCall
    /\ YearsAway = 10
    /\ call.result.val = Allocations(675, 325, 0)

\* C7: every Allocation that is constructed has stock + bond + inflation
\* protected equal to exactly 100, and Allocations::custom returns an error for
\* every triple whose sum is not 100.
C7_AllocationSum ==
    /\ (call.op \in {"retirement", "custom"} /\ call.result.ok)
           => AllocationSum(call.result.val) = 1000
    /\ (call.op = "custom"
        /\ call.total_stock + call.total_bond + call.total_inflation_protected # 1000)
           => ~call.result.ok

C7_Witness ==
    /\ call.op = "custom"
    /\ call.result.ok
    /\ call.result.val = Allocations(500, 250, 250)

\* C8: Allocations::retirement returns an error exactly when the retirement
\* year is outside [2000, 3000); every year inside the range gives an
\* allocation.
C8_YearRange ==
    call.op = "retirement" =>
        (call.result.ok <=> (2000 <= call.year /\ call.year <= 2999))

C8_Witness ==
    /\ call.op = "retirement"
    /\ call.year = 3000
    /\ ~call.result.ok

\* the sum of the nine sub-allocation percentages when each is the stated
\* fraction of its asset class, in 1/90 percent
StatedSubSum(a) ==
    (9 * a.total_stock) + (9 * a.total_bond) + (9 * a.total_inflation_protected)

\* C9: for every supported glide path year SubAllocations::new_custom
\* succeeds; the nine percentages are 2/9 of stock for each of the US large,
\* mid and small caps, 2/9 of stock for total international, 1/9 of stock for
\* emerging markets, 1/3 of bond for each of US total bond, US corporate bond
\* and international bond, and all of inflation protected; they sum to 100
\* within 0.1; and the construction fails when the sum is outside that
\* tolerance.
C9_SubAllocations ==
    /\ ValidYearCall =>
           /\ call.sub.ok
           /\ LET a == call.result.val
                  sub == call.sub.val
              IN  /\ sub.us_stock_large = 2 * a.total_stock
                  /\ sub.us_stock_mid = 2 * a.total_stock
                  /\ sub.us_stock_small = 2 * a.total_stock
                  /\ sub.int_tot_stock = 2 * a.total_stock
                  /\ sub.int_emerging_stock = a.total_stock
                  /\ sub.us_tot_bond = 3 * a.total_bond
                  /\ sub.us_corp_bond = 3 * a.total_bond
                  /\ sub.int_bond = 3 * a.total_bond
                  /\ sub.inflation_protected = 9 * a.total_inflation_protected
                  /\ SubSum(sub) >= 9000 - 9
                  /\ SubSum(sub) <= 9000 + 9
    /\ (call.op = "new_custom"
        /\ (StatedSubSum(call.allocations) < 9000 - 9
            \/ StatedSubSum(call.allocations) > 9000 + 9))
           => ~call.result.ok

C9_Witness ==
    /\ ValidYearCall
    /\ YearsAway = 10
    /\ call.sub.ok
    /\ call.sub.val.int_emerging_stock = 675
    /\ call.sub.val.us_tot_bond = 975

\* C25: across the valid retirement years the stock percentage of the glide
\* path does not decrease as the years to retirement grow, so it never
\* exceeds the 90 of 30 years and more, and the bond percentage is never
\* below 10.
C25_NonDecreasing ==
    ValidYearCall =>
        LET later == AllocationsRetirement(call.year + 1, this_year)
        IN  /\ later.ok => later.val.total_stock >= call.result.val.total_stock
            /\ call.result.val.total_stock <= 900
            /\ call.result.val.total_bond >= 100

---------------------------------------------------------------------------
(* Properties of the rebalance engine *)

ToBuyOk == call.op = "to_buy" /\ call.result.ok

\* which accounts take part in the combined retirement run of the last call
RothIn == TotalValue(call.in.roth_holdings) # 0
TraditionalIn == TotalValue(call.in.traditional_holdings) # 0
BrokeragePooled ==
    call.in.use_brokerage_retirement /\ TotalValue(call.in.brokerage_holdings) # 0

\* the nine buckets of a target
Buckets == {Field(stock_symbol) : stock_symbol \in Tradable}
BucketSum(sv) ==
    sv["vwo"] + sv["vxus"] + sv["vb"] + sv["vo"] + sv["vv"] + sv["bndx"]
    + sv["bnd"] + sv["vtc"] + sv["vtip"]

\* Roth target + brokerage target (if the brokerage is pooled) + traditional
\* target of the last result
AssignedTarget ==
    LET r == call.result.val
        with_brokerage ==
            IF BrokeragePooled THEN SvAdd(r.roth_ira.target, r.brokerage.target)
            ELSE r.roth_ira.target
    IN  SvAdd(with_brokerage, r.traditional_ira.target)

PartitionsEveryBucket ==
    \A f \in Buckets : AssignedTarget[f] = call.result.val.retirement_target[f]

\* C1 as stated: in every successful combined retirement run the per-account
\* targets partition the shared target, Roth target + brokerage target (if
\* pooled) + traditional target being the shared retirement target bucket by
\* bucket.
C1_AsStated == ToBuyOk => PartitionsEveryBucket

\* C1, amended: in every successful combined retirement run the sums agree,
\* sum(Roth target) + sum(brokerage target, if pooled) + sum(traditional
\* target) = sum(shared target); bucket by bucket the per-account targets add
\* up to the shared target whenever the traditional account takes part (it
\* takes the remainder) or no bucket of the shared target is negative.
C1_Partition ==
    ToBuyOk =>
        /\ BucketSum(AssignedTarget) = BucketSum(call.result.val.retirement_target)
        /\ (TraditionalIn
            \/ \A f \in Buckets : call.result.val.retirement_target[f] >= 0)
               => PartitionsEveryBucket

C1_Witness ==
    /\ ToBuyOk
    /\ RothIn /\ TraditionalIn /\ BrokeragePooled
    /\ BucketSum(call.result.val.roth_ira.target) > 0
    /\ BucketSum(call.result.val.brokerage.target) > 0
    /\ BucketSum(call.result.val.traditional_ira.target) > 0
    /\ PartitionsEveryBucket

\* the dollars of the shared target in the first i buckets of an order
RECURSIVE SharedUpTo(_, _, _)
SharedUpTo(order, shared, i) ==
    IF i = 0 THEN 0
    ELSE SharedUpTo(order, shared, i - 1) + shared[Field(order[i])]

\* account_target is the greedy fill of `dollars` over the shared target in
\* the order given: up to some bucket k every bucket holds the full shared
\* amount and the dollars are not yet exhausted, bucket k holds the dollars
\* still unassigned (no more than its shared amount), and the buckets after k
\* hold 0
GreedyFill(order, account_target, shared, dollars) ==
    \E k \in 1..Len(order) :
        /\ \A i \in 1..(k - 1) :
               /\ account_target[Field(order[i])] = shared[Field(order[i])]
               /\ SharedUpTo(order, shared, i) < dollars
        /\ account_target[Field(order[k])] = dollars - SharedUpTo(order, shared, k - 1)
        /\ account_target[Field(order[k])] <= shared[Field(order[k])]
        /\ \A i \in (k + 1)..Len(order) : account_target[Field(order[i])] = 0

\* a bucket of the account's target that is filled in part
PartlyFilled(account_target, shared) ==
    \E f \in Buckets : 0 < account_target[f] /\ account_target[f] < shared[f]

\* C2: the Roth target is the greedy fill of the Roth total over the shared
\* target in the order VWO, VXUS, VB, VO, VV, BNDX, BND, VTC, VTIP: each bucket
\* receives min(shared target of the bucket, Roth dollars still unassigned), so
\* the buckets before the first partly filled one hold the full shared amount,
\* the buckets after it hold 0, and the walk stops when the Roth total is
\* exhausted.
C2_RothFill ==
    (ToBuyOk /\ RothIn) =>
        GreedyFill(<<"VWO", "VXUS", "VB", "VO", "VV", "BNDX", "BND", "VTC", "VTIP">>,
                   call.result.val.roth_ira.target,
                   call.result.val.retirement_target,
                   TotalValue(call.result.val.roth_ira.current))

C2_Witness ==
    /\ ToBuyOk
    /\ RothIn
    /\ call.result.val.roth_ira.target["vwo"] > 0
    /\ call.result.val.roth_ira.target["vwo"] = call.result.val.retirement_target["vwo"]
    /\ PartlyFilled(call.result.val.roth_ira.target, call.result.val.retirement_target)
    /\ call.result.val.roth_ira.target["vtc"] = 0

\* C3: if, and only if, the brokerage is pooled, the brokerage target is the
\* mirror fill: the same min rule over the shared target in the reverse order
\* VTIP, VTC, BND, BNDX, VV, VO, VB, VXUS, VWO.  A brokerage that is not pooled
\* has no part in the shared target, whose dollars are then those of the Roth
\* and traditional accounts.
C3_BrokerageFill ==
    /\ (ToBuyOk /\ BrokeragePooled) =>
           GreedyFill(<<"VTIP", "VTC", "BND", "BNDX", "VV", "VO", "VB", "VXUS", "VWO">>,
                      call.result.val.brokerage.target,
                      call.result.val.retirement_target,
                      TotalValue(call.result.val.brokerage.current))
    /\ (ToBuyOk /\ ~BrokeragePooled) =>
           /\ BucketSum(call.result.val.retirement_target)
                  = TotalValue(call.result.val.roth_ira.current)
                    + TotalValue(call.result.val.traditional_ira.current)
           /\ TotalValue(call.in.brokerage_holdings) = 0
                  => call.result.val.brokerage = AccountHoldingsDefault

C3_Witness ==
    /\ ToBuyOk
    /\ BrokeragePooled
    /\ call.result.val.brokerage.target["vtip"] > 0
    /\ call.result.val.brokerage.target["vtip"] = call.result.val.retirement_target["vtip"]
    /\ PartlyFilled(call.result.val.brokerage.target, call.result.val.retirement_target)
    /\ call.result.val.brokerage.target["vwo"] = 0

\* the account's partition total is not within 1 % of its current value
NotWithinOnePercent(target_total, current_total) ==
    ~(99 * current_total <= 100 * target_total
      /\ 100 * target_total <= 101 * current_total)

\* the walk of an account left dollars unassigned, or missed the account's
\* current value by more than 1 %
WalkFailed(walk, current_total) ==
    \/ walk.total > 0
    \/ NotWithinOnePercent(TotalValue(walk.target), current_total)

\* C4: to_buy returns a validation error whenever, after the Roth or the
\* pooled brokerage walk, the dollars meant for the account were not all
\* consumed (leftover > 0) or the account's partition total is not within 1 %
\* of the account's current value; it then returns no rebalance result.
C4_Validation ==
    (call.op = "to_buy" /\ 2000 <= call.in.retirement_year
                        /\ call.in.retirement_year < 3000) =>
        LET pool == Pool(call.in)
            shared ==
                TargetOverallRetirement(
                    SubSplit(GlidePath(call.in.retirement_year - this_year)), pool)
        IN  (\/ pool.include_roth
                /\ WalkFailed(RothWalk(shared, pool), pool.roth_total)
             \/ pool.include_brokerage
                /\ WalkFailed(BrokerageWalk(shared, pool), pool.brokerage_total))
            => /\ ~call.result.ok
               /\ call.result.err \in {"Unexpected leftover roth cash",
                                       "Roth target and total do not match",
                                       "Unexpected leftover brokerage cash",
                                       "brokerage target and total do not match"}

C4_Witness ==
    /\ call.op = "to_buy"
    /\ ~call.result.ok
    /\ call.result.err = "Unexpected leftover roth cash"
    /\ TotalValue(call.in.roth_holdings) + call.in.roth_cash_add > 0

\* value * pct / 100 for a percentage in 1/90 percent, on a value that is a
\* whole number of Sub100 mills
PercentOf(value, pct) == (value \div Sub100) * pct

\* the brokerage account is rebalanced on its own
BrokerageOnly ==
    ~call.in.use_brokerage_retirement /\ TotalValue(call.in.brokerage_holdings) # 0

\* C5: in the brokerage-only mode, with totalValue the brokerage holdings
\* plus the cash delta plus all external adds, each bucket's target is
\* totalValue * subAllocationPct / 100 less its share of the external
\* holdings: the US stock add in thirds from VV, VO and VB, the
\* international stock add 2/3 from VXUS and 1/3 from VWO, the US bond add in
\* halves from BND and VTC, the international bond add all from BNDX.  The
\* bond percentage is 100 - stock percentage and inflation protected is 0.
C5_BrokerageOnlyTarget ==
    (ToBuyOk /\ BrokerageOnly) =>
        LET in == call.in
            target == call.result.val.brokerage.target
            totalValue == TotalValue(in.brokerage_holdings) + in.brokerage_cash_add
                          + in.brokerage_us_stock_add + in.brokerage_int_stock_add
                          + in.brokerage_us_bond_add + in.brokerage_int_bond_add
            stock == in.percent_stock
            bond == 1000 - in.percent_stock
        IN  /\ totalValue % Sub100 = 0
            /\ target["vv"] = PercentOf(totalValue, 2 * stock)
                              - (in.brokerage_us_stock_add \div 3)
            /\ target["vo"] = PercentOf(totalValue, 2 * stock)
                              - (in.brokerage_us_stock_add \div 3)
            /\ target["vb"] = PercentOf(totalValue, 2 * stock)
                              - (in.brokerage_us_stock_add \div 3)
            /\ target["vxus"] = PercentOf(totalValue, 2 * stock)
                                - ((2 * in.brokerage_int_stock_add) \div 3)
            /\ target["vwo"] = PercentOf(totalValue, stock)
                               - (in.brokerage_int_stock_add \div 3)
            /\ target["bnd"] = PercentOf(totalValue, 3 * bond)
                               - (in.brokerage_us_bond_add \div 2)
            /\ target["vtc"] = PercentOf(totalValue, 3 * bond)
                               - (in.brokerage_us_bond_add \div 2)
            /\ target["bndx"] = PercentOf(totalValue, 3 * bond)
                                - in.brokerage_int_bond_add
            /\ target["vtip"] = 0

C5_Witness ==
    /\ ToBuyOk
    /\ BrokerageOnly
    /\ call.in.brokerage_us_bond_add > 0
    /\ call.in.brokerage_int_bond_add = 0
    /\ call.in.brokerage_cash_add < 0
    /\ call.in.percent_stock = 500
    /\ call.result.val.brokerage.target["bnd"] > 0

\* the result carries a combined retirement target: retirement_target is
\* not the zero vector VanguardRebalance::new starts with
CarriesRetirementTarget == call.result.val.retirement_target # ShareValuesNew

\* C17 as stated: the result of to_buy carries a combined retirement target
\* only when the traditional IRA or the Roth IRA holds a nonzero value
C17_AsStated ==
    (ToBuyOk /\ CarriesRetirementTarget) => (RothIn \/ TraditionalIn)

\* C17: the result of to_buy carries a combined retirement target only when
\* an account of the pool holds a nonzero value: the traditional IRA, the
\* Roth IRA, or the brokerage account when it is pooled with them
C17_RetirementTarget ==
    (ToBuyOk /\ CarriesRetirementTarget)
        => (RothIn \/ TraditionalIn \/ BrokeragePooled)

\* both IRAs are empty, the brokerage account holds value and is not pooled:
\* it is rebalanced on its own and no combined target is set
C17_Witness ==
    /\ ToBuyOk
    /\ ~RothIn /\ ~TraditionalIn /\ ~BrokeragePooled
    /\ TotalValue(call.in.brokerage_holdings) # 0
    /\ TotalValue(call.result.val.brokerage.target) # 0
    /\ ~CarriesRetirementTarget

\* the accounts of a result
AccountsOf(result) == {result.traditional_ira, result.roth_ira, result.brokerage}

\* delta is (target - current) / quote in every slot: the quotient is exact
\* in the thousandths of a share the model keeps
DeltaOf(account, stock_quotes) ==
    \A f \in AllFields :
        /\ stock_quotes[f] # 0
        /\ account.sale_purchases_needed[f] * stock_quotes[f]
               = account.target[f] - account.current[f]

\* C18: for every account of a result the delta vector is (target - current)
\* divided slot by slot by the quote vector; when current = target the delta
\* is the zero vector
C18_Delta ==
    ToBuyOk =>
        \A account \in AccountsOf(call.result.val) :
            /\ DeltaOf(account, call.in.stock_quotes)
            /\ account.current = account.target
                   => account.sale_purchases_needed = ShareValuesNew

\* a brokerage account of nonzero value already at its target and priced
\* above one dollar a share: nothing to buy or sell
C18_BalancedReached ==
    /\ ToBuyOk
    /\ call.in.stock_quotes["bnd"] > 1
    /\ call.result.val.brokerage.current["bnd"] > 0
    /\ call.result.val.brokerage.current = call.result.val.brokerage.target
    /\ call.result.val.brokerage.sale_purchases_needed = ShareValuesNew

\* an account with shares to buy in one bucket and to sell in another at a
\* quote above one dollar
C18_Witness ==
    /\ ToBuyOk
    /\ call.in.stock_quotes["vv"] > 1
    /\ \E f \in Buckets, g \in Buckets :
           /\ call.result.val.brokerage.sale_purchases_needed[f] > 0
           /\ call.result.val.brokerage.sale_purchases_needed[g] < 0
           /\ call.result.val.brokerage.sale_purchases_needed[f]
                  < call.result.val.brokerage.target[f]
                        - call.result.val.brokerage.current[f]

\* the dollars of a target that are stock, the external stock among them,
\* and all its dollars
StockDollars(target) ==
    target["vv"] + target["vo"] + target["vb"] + target["vxus"] + target["vwo"]
    + target["outside_stock"]
AllDollars(target) ==
    BucketSum(target) + target["outside_stock"] + target["outside_bond"]

\* the last call run again with the retirement year `off` years from the
\* clock's year and every other input as it was
WithYear(off) ==
    ToBuyResult([call.in EXCEPT !.retirement_year = this_year + off], this_year)

\* C21: in the brokerage-only mode the brokerage account of the result is
\* set by the flat stock percentage (Allocation = stock %, 100 - stock %, 0)
\* and not by the glide path: the stock dollars of its target, external
\* stock included, are stock % of all its dollars, its inflation protected
\* bucket is 0, and a run with any other valid retirement year and otherwise
\* the same inputs that succeeds gives the same current, target and delta
\* vectors for the brokerage account.
C21_FlatPercentage ==
    (ToBuyOk /\ BrokerageOnly) =>
        LET brokerage == call.result.val.brokerage
        IN  /\ StockDollars(brokerage.target) * PctScale
                   = call.in.percent_stock * (AllDollars(brokerage.target) \div 100)
            /\ AllDollars(brokerage.target) % 100 = 0
            /\ brokerage.target["vtip"] = 0
            /\ \A off \in YearOffsets :
                   WithYear(off).ok => WithYear(off).val.brokerage = brokerage

\* a brokerage-only run next to a Roth account: another retirement year
\* changes the shared retirement target and leaves the brokerage account
C21_Witness ==
    /\ ToBuyOk /\ BrokerageOnly /\ RothIn
    /\ call.result.val.brokerage.target["vv"] > 0
    /\ call.result.val.brokerage.target["bnd"] > 0
    /\ \E off \in YearOffsets :
           /\ WithYear(off).ok
           /\ WithYear(off).val.retirement_target
                  # call.result.val.retirement_target
           /\ WithYear(off).val.brokerage = call.result.val.brokerage

\* the account's target holds the dollars of its imported holdings plus
\* its cash delta, and so does its current vector
Conserves(account, holdings, cash_add) ==
    /\ TotalValue(account.current) = TotalValue(holdings) + cash_add
    /\ TotalValue(account.target) = TotalValue(account.current)

WalkedTarget(f) ==
    call.result.val.roth_ira.target[f]
    + (IF BrokeragePooled THEN call.result.val.brokerage.target[f] ELSE 0)

\* C24: the Roth walk and the walk of the pooled brokerage both draw from
\* the full shared target and never assign the same dollars twice: when
\* every bucket of the shared target is non-negative and the run succeeds,
\* Roth target + brokerage target <= shared target in every bucket, and the
\* remainder the traditional account takes has no negative bucket.
C24_NoDoubleAssignment ==
    (ToBuyOk /\ \A f \in Buckets : call.result.val.retirement_target[f] >= 0) =>
        \A f \in Buckets :
            /\ WalkedTarget(f) <= call.result.val.retirement_target[f]
            /\ call.result.val.traditional_ira.target[f] >= 0

\* the retirement year of the last to_buy call is a supported one
YearValid == 2000 <= call.in.retirement_year /\ call.in.retirement_year < 3000

\* the values of the Roth and of the brokerage account of the last call
\* after their cash deltas
RothAfterCash == TotalValue(call.in.roth_holdings) + call.in.roth_cash_add
BrokerageAfterCash ==
    TotalValue(call.in.brokerage_holdings) + call.in.brokerage_cash_add

WithoutRothAdds ==
    [call.in EXCEPT !.roth_cash_add = 0, !.roth_us_stock_add = 0,
                    !.roth_int_stock_add = 0, !.roth_us_bond_add = 0,
                    !.roth_int_bond_add = 0]
WithoutTraditionalAdds ==
    [call.in EXCEPT !.traditional_cash_add = 0, !.traditional_us_stock_add = 0,
                    !.traditional_int_stock_add = 0, !.traditional_us_bond_add = 0,
                    !.traditional_int_bond_add = 0]
WithoutBrokerageAdds ==
    [call.in EXCEPT !.brokerage_cash_add = 0, !.brokerage_us_stock_add = 0,
                    !.brokerage_int_stock_add = 0, !.brokerage_us_bond_add = 0,
                    !.brokerage_int_bond_add = 0]

\* the result is the one of the inputs `in`, and the account in it is the
\* all-zero one
LeftOut(in, account) ==
    /\ call.result = ToBuyResult(in, this_year)
    /\ call.result.ok => account = AccountHoldingsDefault

\* C27: participation is decided on the value of the account before its
\* cash delta is applied: an account whose imported total_value() is 0 is
\* left out of the run, keeps all-zero current, target and delta vectors in
\* the result whatever its cash delta and external additions are, and its
\* external additions are not added to the pool (the result is the one of
\* the same inputs with that cash delta and those additions at 0).
C27_ZeroValueExcluded ==
    call.op = "to_buy" =>
        /\ ~RothIn => LeftOut(WithoutRothAdds, call.result.val.roth_ira)
        /\ ~TraditionalIn =>
               LeftOut(WithoutTraditionalAdds, call.result.val.traditional_ira)
        /\ TotalValue(call.in.brokerage_holdings) = 0 =>
               LeftOut(WithoutBrokerageAdds, call.result.val.brokerage)

\* an empty Roth account with a cash delta and external stock next to a
\* traditional account: the result has no Roth vectors and the shared
\* target holds the dollars of the traditional account and no external stock
C27_Witness ==
    /\ ToBuyOk /\ ~RothIn /\ TraditionalIn
    /\ call.in.roth_cash_add > 0
    /\ call.in.roth_us_stock_add > 0
    /\ call.result.val.roth_ira = AccountHoldingsDefault
    /\ call.result.val.retirement_target["outside_stock"] = 0
    /\ BucketSum(call.result.val.retirement_target)
           = TotalValue(call.result.val.traditional_ira.current)
    /\ BucketSum(call.result.val.retirement_target) > 0

---------------------------------------------------------------------------
(* Properties of the user interface frame and the import thread *)

\* the holdings a to_buy call was given: the three copies of the frame
CallHoldings ==
    {call.in.roth_holdings, call.in.traditional_holdings, call.in.brokerage_holdings}

\* C29: under any interleaving of the import thread with a frame, every
\* to_buy call uses per-account holdings and a quote vector that come from
\* the same imported store: there is one import whose quotes the call was
\* given and whose accounts every non-default holdings vector of the call
\* was copied from.
C29_SameImport ==
    call.op = "to_buy" =>
        \E n \in 1..MaxImports :
            /\ call.in.stock_quotes = Quotes(n + 1)
            /\ \A h \in CallHoldings : h \in {ShareValuesNew, Portfolio(n)}

\* the six maps of VaporeApp keyed by profile name
ProfileMaps ==
    {"birth_year", "retirement_year", "brokerage_stock",
     "brokerage_account_num", "roth_account_num", "trad_account_num"}

\* the last interaction was a click on "Create" while the profile in the
\* name field existed
CreatedExisting ==
    /\ call.op = "create"
    /\ call.before.profile_name \in DOMAIN call.before.birth_year

\* C30: from the default application state, after any sequence of Create
\* and Delete clicks (with name edits, slider moves and account selections
\* between them) the six per-profile maps have identical key sets, and a
\* Create on a profile that exists leaves every stored value as it was.
C30_ProfileMapsAgree ==
    /\ \A m1 \in ProfileMaps, m2 \in ProfileMaps : DOMAIN app[m1] = DOMAIN app[m2]
    /\ CreatedExisting => \A m \in ProfileMaps : app[m] = call.before[m]

\* a profile whose birth year and retirement year were moved off the
\* defaults, then Create clicked again on it
C30_Witness ==
    /\ CreatedExisting
    /\ app.birth_year[app.profile_name] # 1980
    /\ app.retirement_year[app.profile_name] # 2050

---------------------------------------------------------------------------
(* Properties of the ledger replay *)

\* eoy_value was called on the store and returned (it did not panic)
EoyReturned == eoy_calls > 0 /\ ~eoy_result.panicked

\* the ledger of the store has an entry dated before December 31 of the year
\* before the distribution year of the last call
EntryBeforeBoundary ==
    \E i \in 1..Len(transactions) :
        DateLt(transactions[i].trade_date, Dec31(eoy_result.year - 1))

\* C10: for a distribution year Y, if the ledger has no entry dated before
\* December 31 of Y-1 (the ledger does not reach back to the boundary), the
\* end of year computation returns None, never a holdings snapshot.
C10_NoneWithoutOlderEntry ==
    (EoyReturned /\ ~EntryBeforeBoundary) =>
        (~eoy_result.holdings.some /\ ~eoy_result.value.some)

\* the boundary date of the last call: December 31 of the year before the
\* distribution year
Boundary == Dec31(eoy_result.year - 1)

\* the holdings of the target account in the store, from which the replay starts
CurrentHoldings == accounts_values[eoy_result.account]

\* the ledger entries of the target account dated after the boundary, and
\* those dated on or after it
EntriesAfter ==
    {i \in 1..Len(transactions) :
        /\ transactions[i].account_number = eoy_result.account
        /\ DateLt(Boundary, transactions[i].trade_date)}
EntriesOnOrAfter ==
    {i \in 1..Len(transactions) :
        /\ transactions[i].account_number = eoy_result.account
        /\ ~DateLt(transactions[i].trade_date, Boundary)}

\* what the ledger entries 1..i that are in `entries` take from slot f: the net
\* amount of a Cash entry from the Cash slot, the share delta of an entry with
\* another symbol from that symbol's slot, nothing for a symbol-less entry
RECURSIVE Taken(_, _, _)
Taken(f, entries, i) ==
    IF i = 0 THEN 0
    ELSE LET t == transactions[i]
             amount ==
                 IF i \notin entries \/ t.symbol = "Empty" THEN 0
                 ELSE IF Field(t.symbol) # f THEN 0
                 ELSE IF t.symbol = "VMFXX" THEN t.net_amount
                 ELSE t.shares
         IN  Taken(f, entries, i - 1) + amount

\* the current vector less what the entries take
SnapshotLess(entries) ==
    [f \in AllFields |-> CurrentHoldings[f] - Taken(f, entries, Len(transactions))]

\* C11 as stated: the replay adjusts the snapshot for every transaction of
\* the target account dated on or after December 31 of Y-1; a transaction
\* dated on December 31 of Y-1 is subtracted and counted as in-window.
C11_AsStated ==
    EoyReturned =>
        /\ eoy_result.total_transactions = Cardinality(EntriesOnOrAfter)
        /\ eoy_result.holdings.some =>
               eoy_result.holdings.val = SnapshotLess(EntriesOnOrAfter)

\* C11, amended: the replay adjusts the snapshot for every transaction of the
\* target account dated after December 31 of Y-1; a transaction dated on
\* December 31 of Y-1 is neither subtracted nor counted as in-window, and it
\* counts as an entry that reaches back to the boundary.
C11_AfterBoundary ==
    EoyReturned =>
        /\ eoy_result.total_transactions = Cardinality(EntriesAfter)
        /\ eoy_result.holdings.some =>
               eoy_result.holdings.val = SnapshotLess(EntriesAfter)
        /\ EntriesOnOrAfter # EntriesAfter => eoy_result.enough_transaction

C11_Witness ==
    /\ EoyReturned
    /\ \E i \in EntriesOnOrAfter \ EntriesAfter : transactions[i].symbol = "VV"
    /\ \E i \in EntriesAfter : transactions[i].symbol = "VV"
    /\ eoy_result.holdings.some
    /\ eoy_result.holdings.val["vv"] = CurrentHoldings["vv"] - TxShares

C13_NoneWithoutInWindow ==
    (EoyReturned /\ EntriesAfter = {}) =>
        (~eoy_result.holdings.some /\ ~eoy_result.value.some)

C13_Witness ==
    /\ EoyReturned
    /\ EntryBeforeBoundary
    /\ \E i \in 1..Len(transactions) :
           transactions[i].account_number = eoy_result.account
    /\ EntriesAfter = {}
    /\ ~eoy_result.holdings.some

\* the distributions taken that the store holds for the target account
DistributionsTaken ==
    IF eoy_result.account \in DOMAIN distributions
    THEN distributions[eoy_result.account] ELSE 0

\* the net amounts of the symbol-less Distribution entries 1..i of the target
\* account dated within the calendar year of the last call
RECURSIVE DistributedInYear(_)
DistributedInYear(i) ==
    IF i = 0 THEN 0
    ELSE LET t == transactions[i]
         IN  DistributedInYear(i - 1)
             + (IF /\ t.account_number = eoy_result.account
                   /\ t.symbol = "Empty"
                   /\ t.transaction_type = "DISTRIBUTION"
                   /\ t.trade_date.year = eoy_result.year
                THEN t.net_amount ELSE 0)

\* C14: after one reconstruction for the distribution year Y on a freshly
\* imported store, the distributions taken for the target account are the
\* negated sum of the net amounts of the symbol-less Distribution transactions
\* of that account dated from January 1 to December 31 of Y inclusive.
C14_CalendarYear ==
    (EoyReturned /\ eoy_calls = 1) =>
        DistributionsTaken = 0 - DistributedInYear(Len(transactions))

\* C15: calling the reconstruction again on the same store for the same year
\* and account leaves the distributions taken as they were after one call.
C15_Idempotent ==
    [][(eoy_calls >= 1 /\ eoy_result'.year = eoy_result.year
                       /\ eoy_result'.account = eoy_result.account)
           => distributions' = distributions]_vars

\* the entries of the ledger inside the window of the last call that carry
\* no symbol
SymbolLess == {i \in EntriesAfter : transactions[i].symbol = "Empty"}

\* C28: for every ledger, those with symbol-less transactions of any
\* transaction type among them, the replay reads and writes no ShareValues
\* slot keyed by Empty: eoy_value never ends in the invalid-symbol panic, and
\* the symbol-less entries leave every slot of the snapshot as it was.
C28_NoEmptyPanic ==
    eoy_calls > 0 =>
        /\ ~eoy_result.panicked
        /\ pc # Panic
        /\ eoy_result.holdings.some =>
               eoy_result.holdings.val = SnapshotLess(EntriesAfter \ SymbolLess)

\* a ledger with an older entry and a symbol-less dividend inside the
\* window: the replay counted the dividend, did not panic and returned the
\* holdings untouched
C28_Witness ==
    /\ eoy_calls > 0
    /\ ~eoy_result.panicked
    /\ EntryBeforeBoundary
    /\ \E i \in SymbolLess : transactions[i].transaction_type = "DIVIDEND"
    /\ eoy_result.total_transactions = 1
    /\ eoy_result.holdings.some
    /\ eoy_result.holdings.val = CurrentHoldings

---------------------------------------------------------------------------
(* Properties of the required minimum distribution *)

Clicked == call.op = "load_distribution_table"

\* the click ran with a birth year and an account number
ProfileSet == Clicked /\ call.birth_year.some /\ call.trad_account_num.some

\* age = Y - birth year, as a number (negative for a birth year after Y)
ClickAge == call.distribution_year - call.birth_year.val

\* the table of the call has a nonzero divisor for exactly this age
HasDivisor(table, age) == age \in DOMAIN table /\ table[age] # 0

\* the age is below the smallest key of a table that has keys
BelowTable(table, age) == \E k \in DOMAIN table : \A j \in DOMAIN table : k <= j /\ age < k

\* the click computed figures: the value V was reconstructed and the table
\* has a divisor for the age
FiguresDue ==
    /\ ProfileSet
    /\ call.traditional_value.some
    /\ HasDivisor(call.distribution_table, ClickAge)

\* C16: the minimum required distribution is V / divisor(age); nothing is
\* computed (zero from calculate_minimum_distribution, no figures from the
\* click) when the age is below the smallest key of the table or the table
\* has no divisor for exactly that age; the remaining amount reported is
\* max(0, minimum - already distributed) and never negative.
C16_MinimumDistribution ==
    /\ call.op = "calculate_minimum_distribution" =>
          /\ HasDivisor(call.distribution_table, call.age) =>
                /\ call.result.ok
                /\ call.result.val * call.distribution_table[call.age]
                       = call.traditional_value * DivisorScale
          /\ (BelowTable(call.distribution_table, call.age)
                \/ call.age \notin DOMAIN call.distribution_table) =>
                call.result = Ok(0)
    /\ FiguresDue =>
          /\ distribution_needed.text = FiguresText
          /\ distribution_needed.minimum_distribution
                 * call.distribution_table[ClickAge]
                 = call.traditional_value.val * DivisorScale
          /\ distribution_needed.so_far
                 = GetDistributions(distributions, call.trad_account_num.val)
          /\ distribution_needed.left
                 = (IF distribution_needed.minimum_distribution
                          > distribution_needed.so_far
                    THEN distribution_needed.minimum_distribution
                             - distribution_needed.so_far
                    ELSE 0)
          /\ distribution_needed.left >= 0
    /\ (ProfileSet /\ (BelowTable(call.distribution_table, ClickAge)
                         \/ ClickAge \notin DOMAIN call.distribution_table)) =>
          \/ distribution_needed = call.before
          \/ distribution_needed.text # FiguresText
    /\ (ProfileSet /\ ClickAge >= 0
          /\ BelowTable(call.distribution_table, ClickAge)) =>
          distribution_needed.text = "No distribution needed"

\* a click reported figures with more distributed than the minimum (nothing
\* remains), and the label shows them
C16_Witness ==
    /\ FiguresDue
    /\ distribution_needed.text = FiguresText
    /\ distribution_needed.minimum_distribution > 0
    /\ distribution_needed.so_far > distribution_needed.minimum_distribution
    /\ distribution_needed.left = 0
    /\ eoy_calls = 1

---------------------------------------------------------------------------
(* Properties of ShareValues *)

\* an operation changed share_values, and which
SvOp(op) == pc = "idle" /\ call.op = op

\* C19: after any sequence of ShareValues operations total_value() is the sum
\* of the 9 tradable slots plus Cash plus Other; a change of outside_stock or
\* outside_bond does not change it
C19_TotalValue ==
    /\ TotalValue(share_values)
           = BucketSum(share_values) + share_values["vmfxx"] + share_values["other"]
    /\ TotalValue(share_values)
           = TotalValue([share_values EXCEPT !["outside_stock"] = 0,
                                             !["outside_bond"] = 0])
    /\ (SvOp("add_outside_stock_value") \/ SvOp("add_outside_bond_value"))
           => TotalValue(share_values) = TotalValue(call.a)

\* add_outside_stock_value changed outside_stock of a value with tradable
\* slots, Cash and Other filled, and the total stayed what it was
C19_Witness ==
    /\ SvOp("add_outside_stock_value")
    /\ share_values["outside_stock"] # call.a["outside_stock"]
    /\ share_values["vv"] > 0 /\ share_values["vtip"] > share_values["vv"]
    /\ share_values["vmfxx"] > 0 /\ share_values["other"] > 0
    /\ TotalValue(share_values) = TotalValue(call.a)
    /\ TotalValue(share_values) > 0

\* the ten tickers the program knows
KnownTickers == {"VXUS", "BNDX", "VTIP", "BND", "VWO", "VO", "VB", "VTC", "VV", "VMFXX"}

\* the slot of ShareValues that belongs to a known ticker
SlotOf(ticker) ==
    CASE ticker = "VXUS" -> "vxus" [] ticker = "BNDX" -> "bndx"
      [] ticker = "VTIP" -> "vtip" [] ticker = "BND" -> "bnd"
      [] ticker = "VWO" -> "vwo" [] ticker = "VO" -> "vo"
      [] ticker = "VB" -> "vb" [] ticker = "VTC" -> "vtc"
      [] ticker = "VV" -> "vv" [] ticker = "VMFXX" -> "vmfxx"

\* a method keyed by a symbol was called on share_values
Keyed == call.op \in {"add_stock_value", "subtract_stock_value", "stock_value"}

\* C22: symbol resolution maps each of the 10 known tickers to its own
\* variant (and so to its own slot), the empty string to Empty and every
\* other string to Other; reading, setting or subtracting a value keyed by
\* Empty panics, and it returns no value and changes no slot; with any other
\* key the method does not panic.
C22_SymbolResolution ==
    /\ call.op = "stock_value" =>
           /\ call.symbol \in KnownTickers =>
                  /\ call.stock_symbol = call.symbol
                  /\ call.result = call.a[SlotOf(call.symbol)]
           /\ call.symbol = "" => call.stock_symbol = "Empty"
           /\ (call.symbol \notin KnownTickers /\ call.symbol # "") =>
                  /\ call.stock_symbol = "Other"
                  /\ call.result = call.a["other"]
           /\ call.stock_symbol = "Empty" => call.result = Panic
    /\ Keyed => (pc = Panic <=> call.stock_symbol = "Empty")
    /\ (Keyed /\ pc = Panic) => share_values = call.a
    /\ pc = Panic => Keyed

\* a read keyed by the empty ticker string ended the run of a value whose
\* slots were set
C22_Witness ==
    /\ pc = Panic
    /\ call.op = "stock_value"
    /\ call.symbol = ""
    /\ call.stock_symbol = "Empty"
    /\ call.a["vv"] > 0
    /\ share_values = call.a

\* every slot of x is kept exactly by an f32
ExactSlots(x) == \A f \in AllFields : x[f] <= F32Exact /\ 0 - x[f] <= F32Exact

\* the operator acted slot by slot on all 13 slots
Elementwise ==
    /\ SvOp("add") =>
           \A f \in AllFields : share_values[f] = F32(call.a[f] + call.b[f])
    /\ SvOp("sub") =>
           \A f \in AllFields : share_values[f] = F32(call.a[f] - call.b[f])
    /\ SvOp("mul") =>
           \A f \in AllFields : share_values[f] = F32(call.a[f] * call.b[f])
    /\ SvOp("div") =>
           \A f \in AllFields : share_values[f] * call.b[f] = call.a[f]

\* C20 as stated: the operators act on all 13 slots and (a + b) - b = a and
\* (a * b) / b = a for every a and every b with no zero slot
C20_AsStated ==
    /\ Elementwise
    /\ SvOp("add") => SvSub(share_values, call.b) = call.a
    /\ SvOp("mul") => SvDiv(share_values, call.b) = call.a

\* C20: the operators act on all 13 slots, and (a + b) - b = a and
\* (a * b) / b = a for every a and every b with no zero slot whose sum a + b
\* (product a * b) is kept exactly by an f32 in every slot
C20_RoundTrip ==
    /\ Elementwise
    /\ (SvOp("add") /\ ExactSlots([f \in AllFields |-> call.a[f] + call.b[f]]))
           => SvSub(share_values, call.b) = call.a
    /\ (SvOp("mul") /\ ExactSlots([f \in AllFields |-> call.a[f] * call.b[f]]))
           => SvDiv(share_values, call.b) = call.a

\* a product by an operand that differs from slot to slot, of a value with
\* all 13 slots filled, divides back to the value
C20_Witness ==
    /\ SvOp("mul")
    /\ \A f \in AllFields : call.a[f] > 0
    /\ call.b["outside_stock"] > call.b["vtip"] /\ call.b["vtip"] > call.b["vxus"]
    /\ call.b["vxus"] > 0
    /\ share_values["outside_stock"] > call.a["outside_stock"]
    /\ SvDiv(share_values, call.b) = call.a

====
